---- MODULE Spec2Model ----
(***************************************************************************)
(* WizSeries engine: SeriesManager (series/SeriesManager.h), the shared    *)
(* GLRenderer (series/GLRenderer.h) and the per-visualizer parameter store *)
(* (series/ISeriesVisualizer.h), together with the part of the WebGL       *)
(* driver they act on.                                                     *)
(*                                                                         *)
(* float parameter values are written in hundredths (6.0f is 600, 0.70f is *)
(* 70).  GL object names are modelled as globally fresh numbers, so that   *)
(* an object of an earlier context is never confused with a later one.     *)
(***************************************************************************)
EXTENDS Integers, Sequences, FiniteSets, TLC

VARIABLES
    visualizers_,   \* SeriesManager::visualizers_ : key -> owned instance
    params_,        \* ISeriesVisualizer::params_ of every instance
    active_,        \* SeriesManager::active_
    renderer_,      \* SeriesManager::renderer_ (the GLRenderer's fields)
    ctx_,           \* SeriesManager::ctx_
    ready_,         \* SeriesManager::ready_
    alive,          \* the C++ instance exists (embind delete() not yet called)
    gl,             \* the WebGL driver: contexts and objects that are allocated
    initLog,        \* history: the return value of every initGL call so far
    call,           \* the last operation called, its arguments and its result
    trace,          \* the GL commands the last operation issued while drawing
    seen,           \* history: an earlier frame, kept to compare later ones with
    app,            \* the App component: its refs, its state and what is pending
    hook            \* the useWasmEngine hook: its state, its ref and its load

vars == <<visualizers_, params_, active_, renderer_, ctx_, ready_, alive,
          gl, initLog, call, trace, seen, app, hook>>

managerVars == <<visualizers_, params_, active_, ctx_, ready_, alive, initLog>>

hostVars == <<seen, app, hook>>

----------------------------------------------------------------------------
(* Bounds of the model *)

MaxInitCalls == 2       \* initGL / GLRenderer::init calls explored per instance
MaxVerts     == 1       \* vertices in one vertex list

(* Inputs *)

Keys == {"cantor", "harmonic", "geometric", "logistic", "basel",
         "alt_harmonic", "e_series", "inv_geometric", "gregory_leibniz",
         "apery"}

ActivationNames == {"cantor", "geometric", "mandelbrot", ""}
ParamNames      == {"terms"}
ParamValues     == {500, 1200}
Times           == {1}
Dims            == {<<640, 480>>}
PointSizes      == {200, 150}
Vertices        == {"v"}
RVertices       == {"v", "w"}

NoCall == [op |-> "new", arg |-> <<>>, ret |-> "void"]

(* The host before the page is opened: no component is mounted *)
NoApp  == [mounted |-> FALSE]
NoHook == [mounted |-> FALSE]

----------------------------------------------------------------------------
(* Sequences of length at most n over S *)

SeqsUpTo(S, n) == UNION {[1..k -> S] : k \in 0..n}

----------------------------------------------------------------------------
(* The WebGL driver.  Objects are named by fresh numbers; the sets hold    *)
(* the names that are allocated, the *Made counters every name ever made.  *)

NoGL ==
    [contexts |-> {}, current |-> 0, ctxMade |-> 0,
     shaders |-> {}, shaderMade |-> 0,
     programs |-> {}, linked |-> {}, progMade |-> 0,
     vaos |-> {}, vaoMade |-> 0,
     vbos |-> {}, vboMade |-> 0,
     data |-> [x \in {} |-> <<>>], used |-> 0, viewport |-> <<0, 0>>, blend |-> FALSE]

(* emscripten_webgl_create_context: a fresh positive handle, or a failure  *)
(* value (0 or a negative EMSCRIPTEN_RESULT, depending on the runtime).    *)
CtxFailures == {0, -1}

CtxResults(g) == {g.ctxMade + 1} \cup CtxFailures

CreateContext(g, h) ==
    IF h > 0 THEN [g EXCEPT !.contexts = @ \cup {h}, !.ctxMade = h] ELSE g

MakeContextCurrent(g, h) == [g EXCEPT !.current = h]

(* What the driver answers during one GLRenderer::init: whether each       *)
(* shader compiles and whether the program links.                          *)
InitOutcomes ==
    {o \in [vs : BOOLEAN, fs : BOOLEAN, link : BOOLEAN] :
        (~o.vs \/ ~o.fs) => o.link}

AllGood == [vs |-> TRUE, fs |-> TRUE, link |-> TRUE]

----------------------------------------------------------------------------
(* GLRenderer *)

NewRenderer ==
    [program_ |-> 0, vao_ |-> 0, vbo_ |-> 0, u_point_size_ |-> -1,
     initialized_ |-> FALSE]

(* GLRenderer::compileShader: the shader object is created, compiled and,  *)
(* when compilation fails, deleted again; the result is its name or 0.     *)
compileShader(g, ok) ==
    LET s  == g.shaderMade + 1
        g1 == [g EXCEPT !.shaderMade = s, !.shaders = @ \cup {s}]
    IN  IF ~ok
        THEN [g |-> [g1 EXCEPT !.shaders = @ \ {s}], ret |-> 0]
        ELSE [g |-> g1, ret |-> s]

(* GLRenderer::init under the driver's answers o *)
init(r, g, o) ==
    LET c1 == compileShader(g, o.vs)
        c2 == compileShader(c1.g, o.fs)
        vs == c1.ret
        fs == c2.ret
        p  == c2.g.progMade + 1
        g3 == [c2.g EXCEPT !.progMade = p, !.programs = @ \cup {p},
                           !.linked = IF o.link THEN @ \cup {p} ELSE @]
        r3 == [r EXCEPT !.program_ = p]
        g4 == [g3 EXCEPT !.shaders = @ \ {vs, fs}]
        a  == g4.vaoMade + 1
        b  == g4.vboMade + 1
        g5 == [g4 EXCEPT !.vaoMade = a, !.vaos = @ \cup {a},
                         !.vboMade = b, !.vbos = @ \cup {b},
                         !.data = [x \in g4.vbos \cup {b} |->
                                      IF x = b THEN <<>> ELSE g4.data[x]]]
        r5 == [r3 EXCEPT !.u_point_size_ = 0, !.vao_ = a, !.vbo_ = b,
                         !.initialized_ = TRUE]
    IN  IF vs = 0 \/ fs = 0 THEN [r |-> r, g |-> c2.g, ret |-> FALSE]
        ELSE IF ~o.link THEN [r |-> r3, g |-> g3, ret |-> FALSE]
        ELSE [r |-> r5, g |-> g5, ret |-> TRUE]

(* GLRenderer::beginFrame *)
beginFrame(r, g, width, height) ==
    [g  |-> [g EXCEPT !.viewport = <<width, height>>, !.used = r.program_,
                      !.blend = TRUE],
     ev |-> <<[ev |-> "beginFrame", width |-> width, height |-> height]>>]

(* GLRenderer::draw: upload the whole list into vbo_, then one draw call *)
draw(r, g, verts, mode, ps) ==
    [g  |-> IF r.vbo_ \in g.vbos
            THEN [g EXCEPT !.data[r.vbo_] = verts] ELSE g,
     ev |-> <<[ev |-> "upload", vbo |-> r.vbo_, verts |-> verts],
              [ev |-> "draw", mode |-> mode, count |-> Len(verts),
               ps |-> ps]>>]

drawPoints(r, g, verts, size) ==
    IF verts # <<>> THEN draw(r, g, verts, "GL_POINTS", size)
    ELSE [g |-> g, ev |-> <<>>]

drawLines(r, g, verts) ==
    IF verts # <<>> THEN draw(r, g, verts, "GL_LINES", 100)
    ELSE [g |-> g, ev |-> <<>>]

(* A line strip submitted with the topology of drawLines *)
drawLineStripAsLines(r, g, verts) ==
    IF verts # <<>> THEN draw(r, g, verts, "GL_LINES", 100)
    ELSE [g |-> g, ev |-> <<>>]

drawLineStrip(r, g, verts) ==
    IF verts # <<>> THEN draw(r, g, verts, "GL_LINE_STRIP", 100)
    ELSE [g |-> g, ev |-> <<>>]

drawTriangles(r, g, verts) ==
    IF verts # <<>> THEN draw(r, g, verts, "GL_TRIANGLES", 100)
    ELSE [g |-> g, ev |-> <<>>]

----------------------------------------------------------------------------
(* ISeriesVisualizer *)

(* ISeriesVisualizer::setParam: params_[name] = value *)
setParam(store, name, value) ==
    [n \in DOMAIN store \cup {name} |->
        IF n = name THEN value ELSE store[n]]

(* ISeriesVisualizer::getParam *)
getParam(store, name, defaultVal) ==
    IF name \in DOMAIN store THEN store[name] ELSE defaultVal

DrawOps == {"drawPoints", "drawLines", "drawLineStrip", "drawTriangles"}

(* The gl.draw* calls that end each variant's render, in order: the      *)
(* renderer operation and the least list size at which the call is made. *)
Call(op, least) == [op |-> op, least |-> least]

(* The two variants whose sources are not at hand: grid, bars, axes and  *)
(* the partial-sum polyline, as the other series variants               *)
UnsourcedDrawCalls ==
    <<Call("drawLines", 0), Call("drawTriangles", 0), Call("drawLines", 0),
      Call("drawLineStrip", 2)>>

DrawCalls(i) ==
    CASE i = 1  -> <<Call("drawTriangles", 0), Call("drawLines", 0)>>
      [] i = 2  -> <<Call("drawLines", 0), Call("drawTriangles", 0),
                     Call("drawLines", 0), Call("drawLineStrip", 2)>>
      [] i = 3  -> <<Call("drawTriangles", 0), Call("drawLines", 0),
                     Call("drawLineStrip", 2)>>
      [] i = 4  -> <<Call("drawLines", 0), Call("drawLines", 0),
                     Call("drawPoints", 0)>>
      [] i = 5  -> <<Call("drawLines", 0), Call("drawTriangles", 0),
                     Call("drawLines", 0), Call("drawLineStrip", 2)>>
      [] i = 6  -> <<Call("drawLines", 0), Call("drawTriangles", 0),
                     Call("drawLines", 0), Call("drawLineStrip", 2)>>
      [] i = 7  -> <<Call("drawLines", 0), Call("drawTriangles", 0),
                     Call("drawLines", 0), Call("drawLineStrip", 2)>>
      [] i = 8  -> UnsourcedDrawCalls
      [] i = 9  -> UnsourcedDrawCalls
      [] i = 10 -> <<Call("drawLines", 0), Call("drawTriangles", 0),
                     Call("drawLines", 0), Call("drawLineStrip", 2)>>

(* The vertex lists a render call of instance i may have built *)
FrameLists(i) == [1..Len(DrawCalls(i)) -> SeqsUpTo(Vertices, MaxVerts)]

drawCall(r, g, op, verts) ==
    CASE op = "drawPoints"    -> drawPoints(r, g, verts, 150)
      [] op = "drawLines"     -> drawLines(r, g, verts)
      [] op = "drawLineStrip" -> drawLineStrip(r, g, verts)
      [] op = "drawTriangles" -> drawTriangles(r, g, verts)

(* ISeriesVisualizer::render of instance i from its k-th draw call on,    *)
(* lists being the vertex lists it has built                              *)
RECURSIVE visualizerRender(_, _, _, _, _)

(* A visualizer that sets the frame up itself before each of its batches *)
visualizerRenderBeginsFrame(i, r, g, lists, k) ==
    IF k > Len(DrawCalls(i)) THEN [g |-> g, ev |-> <<>>]
    ELSE LET c    == DrawCalls(i)[k]
             bf   == beginFrame(r, g, 640, 480)
             d    == IF Len(lists[k]) >= c.least
                     THEN drawCall(r, bf.g, c.op, lists[k])
                     ELSE [g |-> bf.g, ev |-> <<>>]
             rest == visualizerRender(i, r, d.g, lists, k + 1)
         IN  [g |-> rest.g, ev |-> bf.ev \o d.ev \o rest.ev]

visualizerRender(i, r, g, lists, k) ==
    IF k > Len(DrawCalls(i)) THEN [g |-> g, ev |-> <<>>]
    ELSE LET c    == DrawCalls(i)[k]
             d    == IF Len(lists[k]) >= c.least
                     THEN drawCall(r, g, c.op, lists[k])
                     ELSE [g |-> g, ev |-> <<>>]
             rest == visualizerRender(i, r, d.g, lists, k + 1)
         IN  [g |-> rest.g, ev |-> d.ev \o rest.ev]

----------------------------------------------------------------------------
(* SeriesManager *)

(* The instance each make_unique of the constructor creates, in order *)
Instance(k) ==
    CASE k = "cantor"          -> 1
      [] k = "harmonic"        -> 2
      [] k = "geometric"       -> 3
      [] k = "logistic"        -> 4
      [] k = "basel"           -> 5
      [] k = "alt_harmonic"    -> 6
      [] k = "e_series"        -> 7
      [] k = "inv_geometric"   -> 8
      [] k = "gregory_leibniz" -> 9
      [] k = "apery"           -> 10

Instances == {Instance(k) : k \in Keys}

EmptyStore == [n \in {} |-> 0]

(* params_ as the two constructors that are not in the sources leave it *)
UnsourcedParams == EmptyStore

(* params_ as each variant's constructor leaves it *)
ConstructedParams(i) ==
    CASE i = 1  -> [depth |-> 600]
      [] i = 2  -> [terms |-> 3000]
      [] i = 3  -> [ratio |-> 70, terms |-> 1500]
      [] i = 4  -> [growth_rate |-> 400]
      [] i = 5  -> [terms |-> 4000]
      [] i = 6  -> [terms |-> 3000]
      [] i = 7  -> [terms |-> 1200]
      [] i = 8  -> UnsourcedParams
      [] i = 9  -> UnsourcedParams
      [] i = 10 -> [terms |-> 3000]

(* SeriesManager::SeriesManager and the member initialisers *)
Init ==
    /\ visualizers_ = [k \in Keys |-> Instance(k)]
    /\ params_ = [i \in Instances |-> ConstructedParams(i)]
    /\ active_ = "cantor"
    /\ renderer_ = NewRenderer
    /\ ctx_ = 0
    /\ ready_ = FALSE
    /\ alive = TRUE
    /\ gl = NoGL
    /\ initLog = <<>>
    /\ call = NoCall
    /\ trace = <<>>
    /\ seen = {}
    /\ app = NoApp
    /\ hook = NoHook

(* SeriesManager::initGL, the driver answering h to the context creation   *)
(* and o to the renderer's shader compilation and linking                  *)
InitGL(h, o) ==
    /\ alive
    /\ Len(initLog) < MaxInitCalls
    /\ h \in CtxResults(gl)
    /\ (h <= 0) => (o = AllGood)
    /\ ctx_' = h
    /\ LET g1 == CreateContext(gl, h)
           g2 == MakeContextCurrent(g1, h)
           ri == init(renderer_, g2, o)
           ok == h > 0 /\ ri.ret
       IN  /\ gl' = IF h <= 0 THEN g1 ELSE ri.g
           /\ renderer_' = IF h <= 0 THEN renderer_ ELSE ri.r
           /\ ready_' = IF ok THEN TRUE ELSE ready_
           /\ initLog' = Append(initLog, ok)
           /\ call' = [op |-> "initGL", arg |-> <<"wiz-canvas">>, ret |-> ok]
    /\ trace' = <<>>
    /\ UNCHANGED <<visualizers_, params_, active_, alive>>
    /\ UNCHANGED hostVars

(* A render guard that forgets ready_ *)
notReadyCtxOnly == ctx_ <= 0

(* The guard of SeriesManager::render *)
notReady == ~ready_ \/ ctx_ <= 0

(* SeriesManager::render; lists are the vertex lists the active          *)
(* visualizer builds in this call                                         *)
Render(time, dims) ==
    /\ alive
    /\ IF notReady
       THEN /\ trace' = <<>>
            /\ gl' = gl
       ELSE LET g1 == MakeContextCurrent(gl, ctx_)
                bf == beginFrame(renderer_, g1, dims[1], dims[2])
                hd == <<[ev |-> "makeCurrent", ctx |-> ctx_]>> \o bf.ev
            IN  IF active_ \in DOMAIN visualizers_
                THEN \E lists \in FrameLists(visualizers_[active_]) :
                        LET vr == visualizerRender(visualizers_[active_],
                                      renderer_, bf.g, lists, 1)
                        IN  /\ trace' = hd \o
                                  <<[ev |-> "render", key |-> active_]>>
                                  \o vr.ev
                            /\ gl' = vr.g
                ELSE /\ trace' = hd
                     /\ gl' = bf.g
    /\ call' = [op |-> "render", arg |-> <<time, dims[1], dims[2]>>,
                ret |-> "void"]
    /\ UNCHANGED <<visualizers_, params_, active_, renderer_, ctx_, ready_,
                   alive, initLog>>
    /\ UNCHANGED hostVars

(* An activation that does not look the name up *)
SetActiveVisualizerUnchecked(name) ==
    /\ alive
    /\ active_' = name
    /\ call' = [op |-> "setActiveVisualizer", arg |-> <<name>>,
                ret |-> "void"]
    /\ trace' = <<>>
    /\ UNCHANGED <<visualizers_, params_, renderer_, ctx_, ready_, alive, gl,
                   initLog>>
    /\ UNCHANGED hostVars

(* An activation that looks the name up with operator[], which inserts *)
SetActiveVisualizerInserting(name) ==
    /\ alive
    /\ active_' = IF name \in DOMAIN visualizers_ THEN name ELSE active_
    /\ visualizers_' = [k \in DOMAIN visualizers_ \cup {name} |->
                           IF k \in DOMAIN visualizers_
                           THEN visualizers_[k] ELSE 0]
    /\ call' = [op |-> "setActiveVisualizer", arg |-> <<name>>,
                ret |-> "void"]
    /\ trace' = <<>>
    /\ UNCHANGED <<params_, renderer_, ctx_, ready_, alive, gl, initLog>>
    /\ UNCHANGED hostVars

(* SeriesManager::setActiveVisualizer *)
SetActiveVisualizer(name) ==
    /\ alive
    /\ active_' = IF name \in DOMAIN visualizers_ THEN name ELSE active_
    /\ call' = [op |-> "setActiveVisualizer", arg |-> <<name>>,
                ret |-> "void"]
    /\ trace' = <<>>
    /\ UNCHANGED <<visualizers_, params_, renderer_, ctx_, ready_, alive, gl,
                   initLog>>
    /\ UNCHANGED hostVars

(* SeriesManager::getActiveVisualizer *)
GetActiveVisualizer ==
    /\ alive
    /\ call' = [op |-> "getActiveVisualizer", arg |-> <<>>, ret |-> active_]
    /\ trace' = <<>>
    /\ UNCHANGED <<visualizers_, params_, active_, renderer_, ctx_, ready_,
                   alive, gl, initLog>>
    /\ UNCHANGED hostVars

(* A setParam that forwards to every registered visualizer *)
SetParamBroadcast(name, value) ==
    /\ alive
    /\ params_' = [i \in DOMAIN params_ |-> setParam(params_[i], name, value)]
    /\ call' = [op |-> "setParam", arg |-> <<name, value>>, ret |-> "void"]
    /\ trace' = <<>>
    /\ UNCHANGED <<visualizers_, active_, renderer_, ctx_, ready_, alive, gl,
                   initLog>>
    /\ UNCHANGED hostVars

(* SeriesManager::setParam *)
SetParam(name, value) ==
    /\ alive
    /\ params_' = IF active_ \in DOMAIN visualizers_
                  THEN [params_ EXCEPT ![visualizers_[active_]] =
                            setParam(@, name, value)]
                  ELSE params_
    /\ call' = [op |-> "setParam", arg |-> <<name, value>>, ret |-> "void"]
    /\ trace' = <<>>
    /\ UNCHANGED <<visualizers_, active_, renderer_, ctx_, ready_, alive, gl,
                   initLog>>
    /\ UNCHANGED hostVars

(* embind delete(): the implicit ~SeriesManager destroys visualizers_ and  *)
(* renderer_; neither SeriesManager nor GLRenderer declares a destructor,  *)
(* so no GL call is made.                                                  *)
Delete ==
    /\ alive
    /\ alive' = FALSE
    /\ visualizers_' = [k \in {} |-> 0]
    /\ params_' = [i \in {} |-> EmptyStore]
    /\ call' = [op |-> "delete", arg |-> <<>>, ret |-> "void"]
    /\ trace' = <<>>
    /\ active_' = ""
    /\ renderer_' = NewRenderer
    /\ ctx_' = 0
    /\ ready_' = FALSE
    /\ UNCHANGED <<gl, initLog>>
    /\ UNCHANGED hostVars

Next ==
    \/ \E h \in CtxResults(gl), o \in InitOutcomes : InitGL(h, o)
    \/ \E t \in Times, d \in Dims : Render(t, d)
    \/ \E n \in ActivationNames : SetActiveVisualizer(n)
    \/ GetActiveVisualizer
    \/ \E n \in ParamNames, v \in ParamValues : SetParam(n, v)
    \/ Delete

Spec == Init /\ [][Next]_vars

----------------------------------------------------------------------------
(* Properties of the SeriesManager, checked under Spec *)

HasFailed    == \E k \in 1..Len(initLog) : ~initLog[k]
HasSucceeded == \E k \in 1..Len(initLog) : initLog[k]

(* C1: setActiveVisualizer(name) with a name that is not a registry key   *)
(* leaves getActiveVisualizer() exactly as it was before the call; with a *)
(* name that is a registry key it makes getActiveVisualizer() return that *)
(* name.                                                                  *)
C1_SetActiveVisualizer ==
    /\ [](call.op = "getActiveVisualizer" => call.ret = active_)
    /\ [][call'.op = "setActiveVisualizer" =>
            IF call'.arg[1] \in Keys
            THEN active_' = call'.arg[1]
            ELSE active_' = active_]_vars

C1_Witness ==
    /\ call.op = "setActiveVisualizer"
    /\ call.arg[1] \notin Keys
    /\ active_ = "geometric"

(* C2: as long as the Manager exists, whatever initGL, render,            *)
(* setActiveVisualizer and setParam calls were made, the active key is a  *)
(* key of the registry and the registry holds exactly the ten keys of the *)
(* constructor, each mapped to the one instance it was given there.       *)
C2_RegistryInvariant ==
    alive =>
        /\ active_ \in DOMAIN visualizers_
        /\ DOMAIN visualizers_ = Keys
        /\ Cardinality(DOMAIN visualizers_) = 10
        /\ \A k \in Keys : visualizers_[k] = Instance(k)
        /\ \A j, k \in Keys : visualizers_[j] = visualizers_[k] => j = k

C2_Witness ==
    /\ call.op = "render"
    /\ ready_
    /\ active_ = "geometric"
    /\ params_[Instance("geometric")]["terms"] = 500
    /\ Len(initLog) = 2

(* C3: setParam(name, value) writes name := value into the parameter      *)
(* store of the active visualizer and leaves its other names alone; every *)
(* other store, and every store under any other operation, is unchanged.  *)
(* So a visualizer that is activated again finds what was last written    *)
(* while it was active.                                                   *)
C3_SetParamFrame ==
    [][alive' =>
        \A i \in Instances :
            IF call'.op = "setParam" /\ i = Instance(active_)
            THEN /\ DOMAIN params_'[i] = DOMAIN params_[i] \cup {call'.arg[1]}
                 /\ params_'[i][call'.arg[1]] = call'.arg[2]
                 /\ \A n \in DOMAIN params_[i] \ {call'.arg[1]} :
                        params_'[i][n] = params_[i][n]
            ELSE params_'[i] = params_[i]]_vars

C3_Witness ==
    /\ call.op = "setActiveVisualizer"
    /\ call.arg[1] = "cantor"
    /\ active_ = "cantor"
    /\ params_[Instance("cantor")] = [depth |-> 600, terms |-> 500]
    /\ params_[Instance("geometric")] = [ratio |-> 70, terms |-> 1200]

(* C4: while the Manager is not ready (its ready flag is false: initGL    *)
(* was never called, or every call so far failed at context creation or   *)
(* at the renderer's initialisation), a render call does nothing: it      *)
(* makes no context current, calls no beginFrame, invokes no visualizer   *)
(* and issues no draw call.                                               *)
C4_RenderNotReady ==
    /\ [](~HasSucceeded => ~ready_)
    /\ [][(call'.op = "render" /\ ~ready_) =>
            /\ trace' = <<>>
            /\ gl' = gl
            /\ renderer_' = renderer_]_vars

C4_Witness ==
    /\ call.op = "render"
    /\ HasFailed
    /\ ctx_ > 0
    /\ ~ready_
    /\ trace = <<>>

(* C5: Failed is terminal: once an initGL call on the instance has        *)
(* failed, no later operation on it (a further initGL call included)      *)
(* makes it ready, and no later render call draws.                        *)
C5_FailedIsTerminal ==
    [][HasFailed =>
          /\ (ready_' => ready_)
          /\ ((call'.op = "render" /\ ~ready_) => trace' = <<>>)]_vars

(* C6: an initGL call that fails at either step returns false and leaves  *)
(* the Manager not ready, in whatever state it is made; initGL returns    *)
(* true exactly when the Manager is ready after the call.                 *)
C6_InitGLResultIsReady ==
    call.op = "initGL" => (call.ret <=> ready_)

(* C7: the GPU context and the renderer's program, vertex array and       *)
(* vertex buffer are created at most once per Manager instance, repeated  *)
(* initGL calls included, and the handles in use are those of the first   *)
(* successful initialisation.                                             *)
(* (Stated here for the runs in which no initGL call has failed.)         *)
C7_CreatedAtMostOnce ==
    ~HasFailed =>
        /\ gl.ctxMade <= 1
        /\ gl.progMade <= 1
        /\ gl.vaoMade <= 1
        /\ gl.vboMade <= 1
        /\ (alive /\ ready_) =>
              /\ ctx_ = 1
              /\ renderer_.program_ = 1
              /\ renderer_.vao_ = 1
              /\ renderer_.vbo_ = 1

(* C8: once the instance is released (delete()), no GPU context, program, *)
(* shader, vertex array or buffer that it created remains allocated.      *)
(* (Stated here for an instance none of whose initGL calls failed.)      *)
C8_TeardownReleasesAll ==
    (~alive /\ ~HasFailed) =>
        /\ gl.contexts = {}
        /\ gl.programs = {}
        /\ gl.shaders = {}
        /\ gl.vaos = {}
        /\ gl.vbos = {}

(* C11: in every frame rendered by a ready Manager (a render call that   *)
(* passes the guard), beginFrame is called exactly once and before every  *)
(* upload and draw call of the frame; the active visualizer's render,     *)
(* which starts after it, calls no beginFrame itself.                     *)
Positions(ev) == {k \in 1..Len(trace) : trace[k].ev = ev}

C11_BeginFrameOnceFirst ==
    (call.op = "render" /\ trace # <<>>) =>
        /\ Cardinality(Positions("beginFrame")) = 1
        /\ \A b \in Positions("beginFrame") :
              \A k \in Positions("upload") \cup Positions("draw")
                         \cup Positions("render") : b < k

C11_RenderedWhenReady ==
    [][(call'.op = "render" /\ ready_ /\ ctx_ > 0) =>
          Len(trace') >= 2 /\ trace'[2].ev = "beginFrame"]_vars

C11_BeginFrame == []C11_BeginFrameOnceFirst /\ C11_RenderedWhenReady

C11_Witness ==
    /\ call.op = "render"
    /\ ready_
    /\ active_ = "geometric"
    /\ Cardinality(Positions("draw")) = 2

----------------------------------------------------------------------------
(* The GLRenderer on its own, as its callers may use it: a context is     *)
(* current, and init, beginFrame and the four draw operations are called  *)
(* in any order.  initLog holds the results of the init calls.            *)

RLists == SeqsUpTo(RVertices, MaxVerts)

InitRenderer ==
    /\ visualizers_ = [k \in Keys |-> Instance(k)]
    /\ params_ = [i \in Instances |-> ConstructedParams(i)]
    /\ active_ = "cantor"
    /\ renderer_ = NewRenderer
    /\ ctx_ = 1
    /\ ready_ = FALSE
    /\ alive = TRUE
    /\ gl = MakeContextCurrent(CreateContext(NoGL, 1), 1)
    /\ initLog = <<>>
    /\ call = NoCall
    /\ trace = <<>>
    /\ seen = {}
    /\ app = NoApp
    /\ hook = NoHook

RendererInit(o) ==
    /\ Len(initLog) < MaxInitCalls
    /\ LET ri == init(renderer_, gl, o)
       IN  /\ renderer_' = ri.r
           /\ gl' = ri.g
           /\ initLog' = Append(initLog, ri.ret)
           /\ call' = [op |-> "init", arg |-> <<>>, ret |-> ri.ret]
    /\ trace' = <<>>
    /\ UNCHANGED <<visualizers_, params_, active_, ctx_, ready_, alive>>
    /\ UNCHANGED hostVars

RendererBeginFrame(dims) ==
    /\ LET bf == beginFrame(renderer_, gl, dims[1], dims[2])
       IN  /\ gl' = bf.g
           /\ trace' = bf.ev
    /\ call' = [op |-> "beginFrame", arg |-> dims, ret |-> "void"]
    /\ UNCHANGED <<managerVars, renderer_>>
    /\ UNCHANGED hostVars

RendererDrawPoints(verts, size) ==
    /\ LET d == drawPoints(renderer_, gl, verts, size)
       IN  /\ gl' = d.g
           /\ trace' = d.ev
    /\ call' = [op |-> "drawPoints", arg |-> <<verts, size>>, ret |-> "void"]
    /\ UNCHANGED <<managerVars, renderer_>>
    /\ UNCHANGED hostVars

RendererDrawLines(verts) ==
    /\ LET d == drawLines(renderer_, gl, verts)
       IN  /\ gl' = d.g
           /\ trace' = d.ev
    /\ call' = [op |-> "drawLines", arg |-> <<verts>>, ret |-> "void"]
    /\ UNCHANGED <<managerVars, renderer_>>
    /\ UNCHANGED hostVars

RendererDrawLineStrip(verts) ==
    /\ LET d == drawLineStrip(renderer_, gl, verts)
       IN  /\ gl' = d.g
           /\ trace' = d.ev
    /\ call' = [op |-> "drawLineStrip", arg |-> <<verts>>, ret |-> "void"]
    /\ UNCHANGED <<managerVars, renderer_>>
    /\ UNCHANGED hostVars

RendererDrawTriangles(verts) ==
    /\ LET d == drawTriangles(renderer_, gl, verts)
       IN  /\ gl' = d.g
           /\ trace' = d.ev
    /\ call' = [op |-> "drawTriangles", arg |-> <<verts>>, ret |-> "void"]
    /\ UNCHANGED <<managerVars, renderer_>>
    /\ UNCHANGED hostVars

NextRenderer ==
    \/ \E o \in InitOutcomes : RendererInit(o)
    \/ \E d \in Dims : RendererBeginFrame(d)
    \/ \E v \in RLists, s \in PointSizes : RendererDrawPoints(v, s)
    \/ \E v \in RLists : RendererDrawLines(v)
    \/ \E v \in RLists : RendererDrawLineStrip(v)
    \/ \E v \in RLists : RendererDrawTriangles(v)

SpecRenderer == InitRenderer /\ [][NextRenderer]_vars

----------------------------------------------------------------------------
(* Properties of the GLRenderer, checked under SpecRenderer *)

(* C9: when init fails (a shader does not compile, or the program does    *)
(* not link) it returns false, initialized_ is false afterwards, and      *)
(* every shader and program object created during the call has been      *)
(* released again.  (Stated here for the first init call of a renderer.)  *)
C9_FailedInitLeavesNothing ==
    [][(call'.op = "init" /\ ~call'.ret /\ initLog = <<>>) =>
          /\ ~renderer_'.initialized_
          /\ gl'.shaders = gl.shaders
          /\ gl'.programs = gl.programs]_vars

Topology(op) ==
    CASE op = "drawPoints"    -> "GL_POINTS"
      [] op = "drawLines"     -> "GL_LINES"
      [] op = "drawLineStrip" -> "GL_LINE_STRIP"
      [] op = "drawTriangles" -> "GL_TRIANGLES"

(* C10: drawPoints, drawLines, drawLineStrip and drawTriangles with an    *)
(* empty vertex list upload nothing and issue no draw call; with a        *)
(* non-empty list each uploads exactly that list once, replacing what the *)
(* buffer held, and issues exactly one draw call, of the topology the     *)
(* operation names and with the list's length as vertex count.            *)
C10_DrawContract ==
    [][call'.op \in DrawOps =>
          LET verts == call'.arg[1]
          IN  IF verts = <<>>
              THEN trace' = <<>> /\ gl' = gl
              ELSE /\ Len(trace') = 2
                   /\ trace'[1].ev = "upload"
                   /\ trace'[1].vbo = renderer_.vbo_
                   /\ trace'[1].verts = verts
                   /\ trace'[2].ev = "draw"
                   /\ trace'[2].mode = Topology(call'.op)
                   /\ trace'[2].count = Len(verts)
                   /\ renderer_.vbo_ \in gl.vbos =>
                          gl'.data[renderer_.vbo_] = verts
                   /\ \A b \in gl.vbos \ {renderer_.vbo_} :
                          gl'.data[b] = gl.data[b]]_vars

C10_Witness ==
    /\ call.op = "drawLineStrip"
    /\ call.arg[1] = <<"w">>
    /\ renderer_.initialized_
    /\ gl.data[renderer_.vbo_] = <<"w">>
    /\ Len(trace) = 2

----------------------------------------------------------------------------
(* The visualizers in detail.                                              *)
(*                                                                         *)
(* time is counted in ticks of 1/40 s and a reveal rate in tenths per      *)
(* second, so that time * rate is a whole number of 1/400 of a term;       *)
(* alpha is counted in the same unit (400 is 1.0f).  float sums and        *)
(* products are exact rationals [n, d]; the rounding of float arithmetic   *)
(* is not modelled.                                                        *)

MaxExact == 10      \* terms of a series whose value and sum are computed

TicksPerSecond == 40
One == 400

(* static_cast<int> of a float given in hundredths: truncation toward 0 *)
IntCast(v) == IF v >= 0 THEN v \div 100 ELSE -((-v) \div 100)

(* A clamp that checks the upper bound only *)
clampUpperOnly(v, lo, hi) == IF hi < v THEN hi ELSE v

(* std::clamp *)
clamp(v, lo, hi) == IF v < lo THEN lo ELSE IF hi < v THEN hi ELSE v

min(a, b) == IF b < a THEN b ELSE a

(* A max that returns its first argument *)
maxOfFirst(a, b) == a

max(a, b) == IF a < b THEN b ELSE a

(* revealed = time * rate, in 1/400 *)
revealed(time, rate) == time * rate

(* A count that leaves out the term at the reveal boundary *)
visibleFloored(terms, rev) == min(terms, rev \div One)

(* visible = std::min(terms, static_cast<int>(revealed) + 1) *)
visible(terms, rev) == min(terms, (rev \div One) + 1)

(* An alpha that wraps around instead of saturating *)
alphaWrapping(rev, index) ==
    IF rev - index * One < 0 THEN 0 ELSE (rev - index * One) % (One + 1)

(* alpha = std::clamp(revealed - static_cast<float>(index), 0.0f, 1.0f) *)
alpha(rev, index) == clamp(rev - index * One, 0, One)

(* Exact rationals *)
RECURSIVE Gcd(_, _)
Gcd(a, b) == IF b = 0 THEN a ELSE Gcd(b, a % b)

Abs(a) == IF a < 0 THEN -a ELSE a

Rat(n, d) ==
    LET g == Gcd(Abs(n), Abs(d))
        s == IF d < 0 THEN -1 ELSE 1
    IN  [n |-> s * (n \div g), d |-> s * (d \div g)]

RAdd(a, b) ==
    LET g == Gcd(a.d, b.d)
    IN  Rat(a.n * (b.d \div g) + b.n * (a.d \div g), a.d * (b.d \div g))
RMul(a, b) == Rat(a.n * b.n, a.d * b.d)
RDiv(a, b) == Rat(a.n * b.d, a.d * b.n)
RAbs(a)    == [n |-> Abs(a.n), d |-> a.d]
RLess(a, b) == a.n * b.d < b.n * a.d
RMax(a, b) == IF RLess(a, b) THEN b ELSE a
RMin(a, b) == IF RLess(b, a) THEN b ELSE a

(* A value the model does not compute (a term beyond MaxExact) *)
Beyond == [n |-> 0, d |-> 0]

(* A draw call made by a visualizer, and a division it performed *)
Batch(op, items) == [ev |-> op, items |-> items]
Div(of, by) == [of |-> of, by |-> by]

----------------------------------------------------------------------------
(* CantorSetVisualizer.  left and right are counted in 1/3^13 of the unit  *)
(* interval, so that every third down to level 12 is a whole number.       *)

CantorUnit == 1594323

RECURSIVE generateCantor(_, _, _, _, _)

(* A recursion whose second child starts where the first one ends *)
generateCantorAdjacent(left, right, level, maxDepth, rev) ==
    IF level > maxDepth \/ alpha(rev, level) <= 0 THEN <<>>
    ELSE LET third == (right - left) \div 3
         IN  <<[level |-> level, left |-> left, right |-> right,
                alpha |-> alpha(rev, level)]>>
             \o generateCantor(left, left + third, level + 1, maxDepth, rev)
             \o generateCantor(left + third, right, level + 1, maxDepth, rev)

(* A recursion that stops one level early *)
generateCantorShallow(left, right, level, maxDepth, rev) ==
    IF level >= maxDepth \/ alpha(rev, level) <= 0 THEN <<>>
    ELSE LET third == (right - left) \div 3
         IN  <<[level |-> level, left |-> left, right |-> right,
                alpha |-> alpha(rev, level)]>>
             \o generateCantor(left, left + third, level + 1, maxDepth, rev)
             \o generateCantor(right - third, right, level + 1, maxDepth, rev)

(* CantorSetVisualizer::generateCantor: the quads it appends *)
generateCantor(left, right, level, maxDepth, rev) ==
    IF level > maxDepth \/ alpha(rev, level) <= 0 THEN <<>>
    ELSE LET third == (right - left) \div 3
         IN  <<[level |-> level, left |-> left, right |-> right,
                alpha |-> alpha(rev, level)]>>
             \o generateCantor(left, left + third, level + 1, maxDepth, rev)
             \o generateCantor(right - third, right, level + 1, maxDepth, rev)

(* CantorSetVisualizer::render *)
CantorRender(store, time, width) ==
    LET depth == clamp(IntCast(getParam(store, "depth", 600)), 1, 12)
        rev   == revealed(time, 15)
        quads == generateCantor(0, CantorUnit, 0, depth, rev)
        axes  == <<[line |-> "x"], [line |-> "y"]>>
                 \o [lv \in 1..(depth + 1) |-> [line |-> "tick", at |-> lv - 1]]
    IN  [batches |-> <<Batch("drawTriangles", quads),
                       Batch("drawLines", axes)>>,
         locals |-> [divs |-> {Div("depth + 1", Rat(depth + 1, 1))}
                  \cup (IF quads # <<>> THEN {Div("third", Rat(3, 1))}
                        ELSE {})]]

----------------------------------------------------------------------------
(* The series variants.  A bar and a polyline point carry the zero-based   *)
(* index of their term, its alpha and, for the first MaxExact terms of the *)
(* harmonic and the geometric series, its value and the partial sum.       *)

Exact(k, x) == IF k <= MaxExact THEN x ELSE Beyond

(* for (float v = step; v < yScale; v += step): the values of v, with the  *)
(* float step and yScale given as rationals                                *)
GridValues(step, yScale) ==
    LET n == CHOOSE j \in 0..40 :
                 /\ \A i \in 1..j : RLess(RMul(Rat(i, 1), step), yScale)
                 /\ ~RLess(RMul(Rat(j + 1, 1), step), yScale)
    IN  [i \in 1..n |-> RMul(Rat(i, 1), step)]

GridLines(values) ==
    [i \in 1..Len(values) |-> [line |-> "grid", at |-> values[i]]]

TickLines(values) ==
    [i \in 1..Len(values) |-> [line |-> "tick", at |-> values[i]]]

(* HarmonicProgressionVisualizer::render, the loops that add 1/k: the sum  *)
(* after n iterations                                                      *)
RECURSIVE harmonicSum(_)

(* A loop that starts at k = 0 + 2 *)
harmonicSumSkippingFirst(n) ==
    IF n = 0 THEN Rat(0, 1)
    ELSE RAdd(harmonicSum(n - 1), Rat(1, n + 1))

harmonicSum(n) ==
    IF n = 0 THEN Rat(0, 1)
    ELSE RAdd(harmonicSum(n - 1), Rat(1, n))

(* HarmonicProgressionVisualizer::render *)
HarmonicRender(store, time, width) ==
    LET terms   == clamp(IntCast(getParam(store, "terms", 3000)), 1, 2000)
        maxSum  == harmonicSum(min(terms, MaxExact))
        yScale  == RMul(RMax(Rat(1, 1), maxSum), Rat(11, 10))
        rev     == revealed(time, 100)
        vis     == visible(terms, rev)
        step    == IF RLess(Rat(16, 1), yScale) THEN Rat(4, 1)
                   ELSE IF RLess(Rat(8, 1), yScale) THEN Rat(2, 1)
                   ELSE Rat(1, 1)
        marks   == IF terms <= MaxExact THEN GridValues(step, yScale)
                   ELSE <<Beyond>>
        quads   == [k \in 1..vis |->
                      [index |-> k - 1, alpha |-> alpha(rev, k - 1),
                       value |-> Rat(1, k)]]
        sumLine == [k \in 1..vis |->
                      [index |-> k - 1, alpha |-> alpha(rev, k - 1),
                       sum |-> Exact(k, harmonicSum(min(k, MaxExact)))]]
        axes    == <<[line |-> "x"], [line |-> "y"]>> \o TickLines(marks)
                   \o (IF vis >= terms /\ terms > 5
                       THEN <<[line |-> "indicator",
                               at |-> sumLine[vis].sum]>>
                       ELSE <<>>)
    IN  [batches |-> <<Batch("drawLines", GridLines(marks)),
                       Batch("drawTriangles", quads),
                       Batch("drawLines", axes)>>
                     \o (IF Len(sumLine) >= 2
                         THEN <<Batch("drawLineStrip", sumLine)>> ELSE <<>>),
         locals |-> [divs |-> {Div("k", Rat(k, 1)) : k \in 1..terms}
                  \cup {Div("yScale", yScale), Div("terms", Rat(terms, 1)),
                        Div("max(terms - 1, 1)", Rat(max(terms - 1, 1), 1))},
         maxSum |-> Exact(terms, maxSum)]]

(* GeometricProgressionVisualizer::render: val after k iterations of      *)
(* val *= ratio, and partialSum after k iterations of partialSum += val    *)
RECURSIVE geometricVal(_, _)
geometricVal(ratio, k) ==
    IF k = 0 THEN Rat(1, 1) ELSE RMul(geometricVal(ratio, k - 1), ratio)

RECURSIVE geometricSum(_, _)

(* A loop that multiplies by the ratio before it adds *)
geometricSumLate(ratio, k) ==
    IF k = 0 THEN Rat(0, 1)
    ELSE RAdd(geometricSum(ratio, k - 1), geometricVal(ratio, k))

geometricSum(ratio, k) ==
    IF k = 0 THEN Rat(0, 1)
    ELSE RAdd(geometricSum(ratio, k - 1), geometricVal(ratio, k - 1))

(* the pre-scan: maxAbsVal and maxAbsSum after n iterations *)
RECURSIVE geometricMaxAbsVal(_, _)
geometricMaxAbsVal(ratio, n) ==
    IF n = 0 THEN Rat(0, 1)
    ELSE RMax(geometricMaxAbsVal(ratio, n - 1),
              RAbs(geometricVal(ratio, n - 1)))

RECURSIVE geometricMaxAbsSum(_, _)
geometricMaxAbsSum(ratio, n) ==
    IF n = 0 THEN Rat(0, 1)
    ELSE RMax(geometricMaxAbsSum(ratio, n - 1),
              RAbs(geometricSum(ratio, n)))

(* A limit line that is drawn for every ratio but 1 *)
geometricConvergesAlways(ratio) == Abs(100 - ratio) * 10000 > 1

(* std::abs(ratio) < 1.0f && std::abs(1.0f - ratio) > 1e-6f, the ratio in *)
(* hundredths                                                             *)
geometricConverges(ratio) ==
    Abs(ratio) < 100 /\ Abs(100 - ratio) * 10000 > 1

(* The plot area of the geometric variant: margin = 0.08f *)
xMinG == Rat(-92, 100)
xMaxG == Rat(92, 100)
yMid  == Rat(0, 1)
yExt  == Rat(92, 100)

(* yMid + (q / scale) * yExt *)
plotY(q, scale) == RAdd(yMid, RMul(RDiv(q, scale), yExt))

(* GeometricProgressionVisualizer::render *)
GeometricRender(store, time, width) ==
    LET ratio   == clamp(getParam(store, "ratio", 70), -200, 200)
        r       == Rat(ratio, 100)
        terms   == clamp(IntCast(getParam(store, "terms", 1500)), 1, 50)
        scanned == min(terms, MaxExact)
        scale   == RMax(RMax(geometricMaxAbsVal(r, scanned),
                             geometricMaxAbsSum(r, scanned)), Rat(1, 1000))
        rev     == revealed(time, 80)
        vis     == visible(terms, rev)
        barW    == RDiv(RAdd(xMaxG, RMul(Rat(-1, 1), xMinG)), Rat(terms, 1))
        barGap  == RMul(barW, Rat(10, 100))
        drawn   == terms <= MaxExact
        quads   == [i \in 1..vis |->
                      [index |-> i - 1, alpha |-> alpha(rev, i - 1),
                       value |-> Exact(i, geometricVal(r, min(i, MaxExact) - 1)),
                       x1 |-> RAdd(RAdd(xMinG, RMul(Rat(i - 1, 1), barW)),
                                   barGap),
                       x2 |-> RAdd(RAdd(xMinG, RMul(Rat(i, 1), barW)),
                                   RMul(Rat(-1, 1), barGap)),
                       y1 |-> IF drawn
                              THEN RMin(yMid, plotY(geometricVal(r, i - 1),
                                                    scale))
                              ELSE Beyond,
                       y2 |-> IF drawn
                              THEN RMax(yMid, plotY(geometricVal(r, i - 1),
                                                    scale))
                              ELSE Beyond]]
        sumLine == [i \in 1..vis |->
                      [index |-> i - 1, alpha |-> alpha(rev, i - 1),
                       sum |-> Exact(i, geometricSum(r, min(i, MaxExact))),
                       x |-> RAdd(xMinG, RMul(Rat(2 * i - 1, 2), barW)),
                       y |-> IF drawn THEN plotY(geometricSum(r, i), scale)
                             ELSE Beyond]]
        marker  == geometricConverges(ratio) /\ vis >= terms
        limit   == RDiv(Rat(1, 1), Rat(100 - ratio, 100))
        axes    == <<[line |-> "zero", x1 |-> xMinG, x2 |-> xMaxG,
                      y |-> yMid]>>
                   \o (IF marker
                       THEN <<[line |-> "limit", at |-> limit,
                               x1 |-> xMinG, x2 |-> xMaxG,
                               y |-> IF drawn THEN plotY(limit, scale)
                                     ELSE Beyond]>>
                       ELSE <<>>)
    IN  [batches |-> <<Batch("drawTriangles", quads),
                       Batch("drawLines", axes)>>
                     \o (IF Len(sumLine) >= 2
                         THEN <<Batch("drawLineStrip", sumLine)>> ELSE <<>>),
         locals |-> [divs |-> {Div("scale", scale), Div("terms", Rat(terms, 1))}
                  \cup (IF marker
                        THEN {Div("1 - ratio", Rat(100 - ratio, 100))}
                        ELSE {}),
         scale |-> Exact(terms, scale)]]

(* The series whose plot scale is a constant: bars, partial-sum points,   *)
(* grid, axes and the limit line of BaselProblemVisualizer,                *)
(* AperyConstantVisualizer and ESeriesVisualizer                           *)
ConstantScaleRender(terms, rev, yScale, step, limit, termDivs) ==
    LET vis     == visible(terms, rev)
        marks   == GridValues(step, yScale)
        quads   == [k \in 1..vis |->
                      [index |-> k - 1, alpha |-> alpha(rev, k - 1)]]
        sumLine == [k \in 1..vis |->
                      [index |-> k - 1, alpha |-> alpha(rev, k - 1)]]
        axes    == <<[line |-> "x"], [line |-> "y"]>> \o TickLines(marks)
                   \o (IF vis >= terms
                       THEN <<[line |-> "limit", at |-> limit]>>
                       ELSE <<>>)
    IN  [batches |-> <<Batch("drawLines", GridLines(marks)),
                       Batch("drawTriangles", quads),
                       Batch("drawLines", axes)>>
                     \o (IF Len(sumLine) >= 2
                         THEN <<Batch("drawLineStrip", sumLine)>> ELSE <<>>),
         locals |-> [divs |-> termDivs
                  \cup {Div("yScale", yScale), Div("terms", Rat(terms, 1)),
                        Div("max(terms - 1, 1)", Rat(max(terms - 1, 1), 1))}]]

(* BaselProblemVisualizer::render *)
BaselRender(store, time, width) ==
    LET terms == clamp(IntCast(getParam(store, "terms", 4000)), 1, 2000)
        rev   == revealed(time, 100)
    IN  ConstantScaleRender(terms, rev, Rat(189167, 100000), Rat(1, 2),
            Rat(16449, 10000),
            {Div("n * n", Rat(n * n, 1)) : n \in 1..visible(terms, rev)})

(* AperyConstantVisualizer::render *)
AperyRender(store, time, width) ==
    LET terms == clamp(IntCast(getParam(store, "terms", 3000)), 1, 200)
        rev   == revealed(time, 100)
    IN  ConstantScaleRender(terms, rev, Rat(138237, 100000), Rat(1, 4),
            Rat(12021, 10000),
            {Div("nf * nf * nf", Rat(n * n * n, 1)) :
                 n \in 1..visible(terms, rev)})

RECURSIVE factorial(_)
factorial(n) == IF n = 0 THEN 1 ELSE factorial(n - 1) * n

(* ESeriesVisualizer::render *)
ESeriesRender(store, time, width) ==
    LET terms == clamp(IntCast(getParam(store, "terms", 1200)), 1, 25)
        rev   == revealed(time, 40)
    IN  ConstantScaleRender(terms, rev, Rat(304448, 100000), Rat(1, 2),
            Rat(27183, 10000),
            {Div("factorial", Rat(factorial(n - 1), 1)) :
                 n \in 1..min(visible(terms, rev), MaxExact)})

(* AlternatingHarmonicVisualizer::render: term n and the sum after n terms *)
altTerm(n) == IF n % 2 = 1 THEN Rat(1, n) ELSE Rat(-1, n)

RECURSIVE altSum(_)
altSum(n) == IF n = 0 THEN Rat(0, 1) ELSE RAdd(altSum(n - 1), altTerm(n))

RECURSIVE altMaxAbsVal(_)
altMaxAbsVal(n) ==
    IF n = 0 THEN Rat(0, 1)
    ELSE RMax(altMaxAbsVal(n - 1), RAbs(altTerm(n)))

RECURSIVE altMaxAbsSum(_)
altMaxAbsSum(n) ==
    IF n = 0 THEN Rat(0, 1)
    ELSE RMax(altMaxAbsSum(n - 1), RAbs(altSum(n)))

(* std::pow(10.0f, std::floor(std::log10(step))) for 0.001 <= step < 1000 *)
Pow10(e) ==
    CASE e = -3 -> Rat(1, 1000) [] e = -2 -> Rat(1, 100)
      [] e = -1 -> Rat(1, 10)   [] e = 0  -> Rat(1, 1)
      [] e = 1  -> Rat(10, 1)   [] e = 2  -> Rat(100, 1)
      [] e = 3  -> Rat(1000, 1)

Mag(step) ==
    Pow10(CHOOSE e \in -3..2 :
              ~RLess(step, Pow10(e)) /\ RLess(step, Pow10(e + 1)))

(* std::ceil of a positive rational *)
Ceil(a) == (a.n + a.d - 1) \div a.d

(* AlternatingHarmonicVisualizer::render *)
AltHarmonicRender(store, time, width) ==
    LET terms   == clamp(IntCast(getParam(store, "terms", 3000)), 1, 2000)
        scanned == min(terms, MaxExact)
        scale   == RMax(RMax(altMaxAbsVal(scanned), altMaxAbsSum(scanned)),
                        Rat(1, 1000))
        rev     == revealed(time, 80)
        vis     == visible(terms, rev)
        step0   == RMax(RDiv(scale, Rat(4, 1)), Rat(1, 100))
        mag     == Mag(step0)
        step    == RMul(Rat(Ceil(RDiv(step0, mag)), 1), mag)
        marks   == GridValues(step, scale)
        grid    == [i \in 1..(2 * Len(marks)) |->
                      [line |-> "grid",
                       at |-> IF i % 2 = 1 THEN marks[(i + 1) \div 2]
                              ELSE RMul(Rat(-1, 1), marks[i \div 2])]]
        quads   == [n \in 1..vis |->
                      [index |-> n - 1, alpha |-> alpha(rev, n - 1)]]
        sumLine == [n \in 1..vis |->
                      [index |-> n - 1, alpha |-> alpha(rev, n - 1)]]
        axes    == <<[line |-> "zero"], [line |-> "y"]>>
                   \o (IF vis >= terms
                       THEN <<[line |-> "limit", at |-> Rat(6931, 10000)]>>
                       ELSE <<>>)
    IN  [batches |-> <<Batch("drawLines", grid),
                       Batch("drawTriangles", quads),
                       Batch("drawLines", axes)>>
                     \o (IF Len(sumLine) >= 2
                         THEN <<Batch("drawLineStrip", sumLine)>> ELSE <<>>),
         locals |-> [divs |-> {Div("n", Rat(n, 1)) : n \in 1..terms}
                  \cup {Div("scale", scale), Div("terms", Rat(terms, 1)),
                        Div("4.0f", Rat(4, 1)), Div("mag", mag)}]]

(* LogisticMapVisualizer::render.  A point list item stands for the        *)
(* plotItr samples of one column; the iterates themselves are not computed *)
warmup  == 300
plotItr == 120

(* A sweep that takes four seconds *)
visColsSlow(cols, time) ==
    max(1, (cols * clamp(revealed(time, 5) \div 2, 0, One)) \div One)

(* visCols = std::max(1, static_cast<int>(cols * revealFrac)), with       *)
(* revealFrac = std::clamp(time * 0.5f, 0.0f, 1.0f)                        *)
visCols(cols, time) ==
    max(1, (cols * clamp(revealed(time, 5), 0, One)) \div One)

NiceRs == <<150, 200, 250, 300, 350, 400>>

RECURSIVE SelectSeq2(_, _)
SelectSeq2(sq, limit) ==
    IF sq = <<>> THEN <<>>
    ELSE (IF sq[1] < 100 \/ sq[1] > limit THEN <<>> ELSE <<sq[1]>>)
         \o SelectSeq2(Tail(sq), limit)

LogisticRender(store, time, width) ==
    LET rMax       == clamp(getParam(store, "growth_rate", 400), 100, 400)
        rMin       == 100
        cols       == clamp((width * 7) \div 10, 200, 1400)
        shownCols  == visCols(cols, time)
        shown      == SelectSeq2(NiceRs, rMax)
        grid       == <<[line |-> "grid", y |-> 25], [line |-> "grid", y |-> 50],
                        [line |-> "grid", y |-> 75]>>
                      \o [i \in 1..Len(shown) |->
                             [line |-> "grid", r |-> shown[i]]]
        points     == [c \in 1..shownCols |->
                         [col |-> c - 1, discarded |-> warmup,
                          samples |-> plotItr]]
        chaos      == rMax > 357
        axes       == <<[line |-> "x"], [line |-> "y"]>>
                      \o [i \in 1..Len(shown) |->
                             [line |-> "tick", r |-> shown[i]]]
                      \o <<[line |-> "tick", y |-> 25],
                           [line |-> "tick", y |-> 50],
                           [line |-> "tick", y |-> 75]>>
                      \o (IF chaos THEN <<[line |-> "chaos", r |-> 357]>>
                          ELSE <<>>)
    IN  [batches |-> <<Batch("drawLines", grid), Batch("drawLines", axes),
                       Batch("drawPoints", points)>>,
         locals |-> [divs |-> {Div("cols - 1", Rat(cols - 1, 1))}
                  \cup (IF shown # <<>> \/ chaos
                        THEN {Div("rMax - rMin", Rat(rMax - rMin, 100))}
                        ELSE {})]]

----------------------------------------------------------------------------
(* One visualizer behind a ready Manager: the parameters it has been given *)
(* are drawn from the sets below, and SeriesManager::render dispatches to  *)
(* its render at the times below.  trace holds what the call computed      *)
(* (trace[1]) and the draw calls it made on the GLRenderer, in order.      *)

SourcedKeys == {"cantor", "harmonic", "geometric", "logistic", "basel",
                "alt_harmonic", "e_series", "apery"}

DepthValues  == {-100, 0, 50, 100, 300, 600, 1200, 99900}
TermsValues  == {-500, 0, 50, 100, 300, 600, 1000, 250000}
RatioValues  == {-250, -200, -100, -50, 0, 50, 100, 150, 200, 300}
GrowthValues == {50, 100, 150, 300, 357, 358, 400, 500}
FrameTimes   == {0, 1, 5, 10, 36, 40, 50, 80, 107, 400}
FrameDims    == {<<640, 480>>, <<200, 100>>}

(* The stores setParam calls can have left in instance i *)
Stores(i) ==
    CASE i = 1 -> {setParam(ConstructedParams(i), "depth", v) :
                      v \in DepthValues}
      [] i = 3 -> {setParam(setParam(ConstructedParams(i), "ratio", r),
                            "terms", v) :
                      r \in RatioValues, v \in TermsValues}
      [] i = 4 -> {setParam(ConstructedParams(i), "growth_rate", v) :
                      v \in GrowthValues}
      [] OTHER -> {ConstructedParams(i)}
                  \cup {setParam(ConstructedParams(i), "terms", v) :
                           v \in TermsValues}

(* A visualizer that keeps the geometry of its last frame and emits it    *)
(* again while no other call has come in between                          *)
FrameCached(i, store, time, width) ==
    IF call.op = "render" /\ Len(trace) > 1
    THEN [batches |-> Tail(trace), locals |-> trace[1].locals]
    ELSE CASE i = 1  -> CantorRender(store, time, width)
           [] i = 4  -> LogisticRender(store, time, width)
           [] OTHER  -> HarmonicRender(store, time, width)

(* The virtual call it->second->render(time, width, height, renderer_) *)
Frame(i, store, time, width) ==
    CASE i = 1  -> CantorRender(store, time, width)
      [] i = 2  -> HarmonicRender(store, time, width)
      [] i = 3  -> GeometricRender(store, time, width)
      [] i = 4  -> LogisticRender(store, time, width)
      [] i = 5  -> BaselRender(store, time, width)
      [] i = 6  -> AltHarmonicRender(store, time, width)
      [] i = 7  -> ESeriesRender(store, time, width)
      [] i = 10 -> AperyRender(store, time, width)

InitVisualizer ==
    /\ visualizers_ = [k \in Keys |-> Instance(k)]
    /\ active_ \in SourcedKeys
    /\ \E st \in Stores(Instance(active_)) :
          params_ = [i \in Instances |->
                        IF i = Instance(active_) THEN st
                        ELSE ConstructedParams(i)]
    /\ LET g  == MakeContextCurrent(CreateContext(NoGL, 1), 1)
           ri == init(NewRenderer, g, AllGood)
       IN  /\ renderer_ = ri.r
           /\ gl = ri.g
    /\ ctx_ = 1
    /\ ready_ = TRUE
    /\ alive = TRUE
    /\ initLog = <<TRUE>>
    /\ call = [op |-> "setParam", arg |-> <<>>, ret |-> "void"]
    /\ trace = <<>>
    /\ seen = {}
    /\ app = NoApp
    /\ hook = NoHook

(* SeriesManager::render, the active visualizer's render in detail *)
RenderFrame(time, dims) ==
    /\ alive
    /\ ~notReady
    /\ active_ \in DOMAIN visualizers_
    /\ LET f == Frame(visualizers_[active_], params_[visualizers_[active_]],
                      time, dims[1])
       IN  trace' = <<[ev |-> "compute", key |-> active_,
                       locals |-> f.locals]>> \o f.batches
    /\ call' = [op |-> "render", arg |-> <<time, dims[1], dims[2]>>,
                ret |-> "void"]
    /\ UNCHANGED <<visualizers_, params_, active_, renderer_, ctx_, ready_,
                   alive, gl, initLog>>
    /\ UNCHANGED hostVars

NextVisualizer == \E t \in FrameTimes, d \in FrameDims : RenderFrame(t, d)

SpecVisualizer == InitVisualizer /\ [][NextVisualizer]_vars

----------------------------------------------------------------------------
(* Properties of the visualizers, checked under SpecVisualizer *)

Range(sq) == {sq[k] : k \in 1..Len(sq)}

Rendered == call.op = "render"

(* The lists of the frame in trace: bars or segments, polyline, lines *)
ItemsOf(tr, op) ==
    UNION {Range(tr[k].items) : k \in {j \in 2..Len(tr) : tr[j].ev = op}}

Quads(tr)      == ItemsOf(tr, "drawTriangles")
Polyline(tr)   == ItemsOf(tr, "drawLineStrip")
LimitLines(tr) == {it \in ItemsOf(tr, "drawLines") : it.line = "limit"}

(* The parameter as the interface declares it: the nearest value of the   *)
(* variant's range lo..hi (in hundredths)                                 *)
Nearest(v, lo, hi) == IF v < lo THEN lo ELSE IF v > hi THEN hi ELSE v

DeclaredRange(key, name) ==
    CASE key = "cantor" /\ name = "depth"         -> <<100, 1200>>
      [] key = "harmonic" /\ name = "terms"       -> <<100, 200000>>
      [] key = "alt_harmonic" /\ name = "terms"   -> <<100, 200000>>
      [] key = "basel" /\ name = "terms"          -> <<100, 200000>>
      [] key = "geometric" /\ name = "ratio"      -> <<-200, 200>>
      [] key = "geometric" /\ name = "terms"      -> <<100, 5000>>
      [] key = "e_series" /\ name = "terms"       -> <<100, 2500>>
      [] key = "apery" /\ name = "terms"          -> <<100, 20000>>
      [] key = "logistic" /\ name = "growth_rate" -> <<100, 400>>

ActiveStore == params_[Instance(active_)]

InRangeStore ==
    [n \in DOMAIN ActiveStore |->
        Nearest(ActiveStore[n], DeclaredRange(active_, n)[1],
                DeclaredRange(active_, n)[2])]

(* The term count of the active series variant, 1..max *)
Terms == IntCast(InRangeStore["terms"])

FullyRevealed(tr) == {it \in Quads(tr) : it.alpha = One}

(* C12: reveal monotonicity: for a series or Cantor variant with fixed    *)
(* parameters, every term (Cantor segment) that a frame at time t1 emits  *)
(* with reveal fraction 1 is emitted with reveal fraction 1 by a frame at *)
(* any later time t2 as well.                                             *)
C12_RevealMonotone ==
    [][(Rendered /\ call'.op = "render" /\ call.arg[1] < call'.arg[1]) =>
          FullyRevealed(trace) \subseteq FullyRevealed(trace')]_vars

C12_Witness ==
    /\ Rendered
    /\ active_ = "apery"
    /\ call.arg[1] = 50
    /\ Cardinality(FullyRevealed(trace)) = 12
    /\ Cardinality(Quads(trace)) = 13

SeriesWithLimit == {"apery", "basel", "e_series", "alt_harmonic", "geometric"}

(* C13: the convergence-limit marker of a series variant is emitted in a  *)
(* frame only if every one of the clamped terms terms is emitted in that  *)
(* frame with reveal fraction 1.                                          *)
C13_MarkerOnlyWhenAllRevealed ==
    (Rendered /\ active_ \in SeriesWithLimit /\ LimitLines(trace) # {}) =>
        /\ Cardinality(Quads(trace)) = Terms
        /\ \A it \in Quads(trace) : it.alpha = One

(* C14: the geometric variant draws the limit line only when |ratio| < 1: *)
(* with |ratio| >= 1 (ratio = 1.0 in particular) no frame contains it and *)
(* 1 / (1 - ratio) is not computed; when it is computed, 1 - ratio is not *)
(* zero.                                                                  *)
C14_LimitOnlyWhenConvergent ==
    (Rendered /\ active_ = "geometric") =>
        /\ Abs(InRangeStore["ratio"]) >= 100 =>
              /\ LimitLines(trace) = {}
              /\ \A d \in trace[1].locals.divs : d.of # "1 - ratio"
        /\ \A d \in trace[1].locals.divs : d.of = "1 - ratio" => d.by.n # 0
        /\ \A it \in LimitLines(trace) :
              it.at = RDiv(Rat(1, 1), Rat(100 - InRangeStore["ratio"], 100))

C14_Witness ==
    /\ Rendered
    /\ active_ = "geometric"
    /\ ActiveStore["ratio"] = 100
    /\ Terms = 3
    /\ call.arg[1] = 400
    /\ Cardinality(FullyRevealed(trace)) = 3
    /\ LimitLines(trace) = {}

(* C15: a parameter value outside the variant's range is clamped: the     *)
(* frame rendered with it consists of exactly the batches of the frame    *)
(* rendered with the nearest bound of the range in its place.             *)
C15_ClampedToNearestBound ==
    [][(call'.op = "render" /\ InRangeStore # ActiveStore) =>
          Tail(trace') =
              Frame(Instance(active_), InRangeStore, call'.arg[1],
                    call'.arg[2]).batches]_vars

C15_Witness ==
    /\ Rendered
    /\ active_ = "cantor"
    /\ ActiveStore["depth"] = 99900
    /\ call.arg[1] = 400
    /\ Cardinality(Quads(trace)) = 8191

(* The list a draw call of the frame was given, <<>> when there is none *)
ListOf(tr, op) ==
    LET S == {j \in 2..Len(tr) : tr[j].ev = op}
    IN  IF S = {} THEN <<>> ELSE tr[CHOOSE j \in S : \A i \in S : j <= i].items

RECURSIVE Pow(_, _)
Pow(b, e) == IF e = 0 THEN 1 ELSE b * Pow(b, e - 1)

Depth == IntCast(InRangeStore["depth"])

AtLevel(sq, L) == {k \in 1..Len(sq) : sq[k].level = L}

(* C16: once the Cantor variant with clamped depth d is fully revealed    *)
(* (time * 1.5 >= d + 1), its frame has exactly 2^L bar segments on every *)
(* level L of 0..d and none deeper, 2^(d+1) - 1 in all; with depth = 3    *)
(* at time 10 these are 15 segments on 4 levels.                          *)
C16_CantorSegmentCount ==
    (Rendered /\ active_ = "cantor"
        /\ revealed(call.arg[1], 15) >= (Depth + 1) * One) =>
        LET quads == ListOf(trace, "drawTriangles")
        IN  /\ \A L \in 0..13 :
                  Cardinality(AtLevel(quads, L)) =
                      IF L <= Depth THEN Pow(2, L) ELSE 0
            /\ Len(quads) = Pow(2, Depth + 1) - 1
            /\ (Depth = 3 /\ call.arg[1] = 10 * TicksPerSecond) =>
                  /\ Len(quads) = 15
                  /\ {q.level : q \in Range(quads)} = 0..3

C16_Witness ==
    /\ Rendered
    /\ active_ = "cantor"
    /\ ActiveStore["depth"] = 300
    /\ call.arg[1] = 10 * TicksPerSecond
    /\ Len(ListOf(trace, "drawTriangles")) = 15

RECURSIVE SumWidths(_, _, _)
SumWidths(sq, lo, hi) ==
    IF lo > hi THEN 0
    ELSE IF lo = hi THEN sq[lo].right - sq[lo].left
    ELSE LET mid == (lo + hi) \div 2
         IN  SumWidths(sq, lo, mid) + SumWidths(sq, mid + 1, hi)

LevelQuads(tr, L) ==
    SelectSeq(ListOf(tr, "drawTriangles"), LAMBDA q : q.level = L)

(* C17: in a Cantor frame the segments of level d, for every d of 0..12   *)
(* that the frame shows, have a total length of (2/3)^d of the original   *)
(* span: each is a third of its parent, a parent keeps its first and its  *)
(* last third, and the segments of one level do not overlap.              *)
C17_CantorLength ==
    (Rendered /\ active_ = "cantor") =>
        \A d \in 0..12 :
            LET sq == LevelQuads(trace, d)
            IN  sq # <<>> =>
                  /\ SumWidths(sq, 1, Len(sq)) =
                         Pow(2, d) * (CantorUnit \div Pow(3, d))
                  /\ \A k \in 1..Len(sq) :
                        sq[k].right - sq[k].left = CantorUnit \div Pow(3, d)
                  /\ \A k \in 1..(Len(sq) - 1) : sq[k].right <= sq[k + 1].left
                  /\ d > 0 =>
                        \A k \in 1..Len(sq) :
                            \E p \in Range(LevelQuads(trace, d - 1)) :
                                \/ sq[k].left = p.left
                                \/ sq[k].right = p.right

C17_Witness ==
    /\ Rendered
    /\ active_ = "cantor"
    /\ ActiveStore["depth"] = 1200
    /\ Len(LevelQuads(trace, 12)) = 4096

RECURSIVE SumOfQuotients(_, _)
SumOfQuotients(F, n) ==
    IF n = 0 THEN 0 ELSE SumOfQuotients(F, n - 1) + F \div n

(* 1/1 + 1/2 + ... + 1/N, over the common denominator N! *)
HarmonicNumber(N) == Rat(SumOfQuotients(factorial(N), N), factorial(N))

(* C18: in a frame of the harmonic variant the partial sum plotted at the *)
(* N-th point of the polyline is 1/1 + ... + 1/N, and the full-range sum  *)
(* used for the y scale is 1/1 + ... + 1/terms (N and terms up to         *)
(* MaxExact).                                                             *)
C18_HarmonicPartialSums ==
    (Rendered /\ active_ = "harmonic") =>
        LET sumLine == ListOf(trace, "drawLineStrip")
        IN  /\ \A N \in 1..Len(sumLine) :
                  /\ sumLine[N].index = N - 1
                  /\ N <= MaxExact => sumLine[N].sum = HarmonicNumber(N)
            /\ Terms <= MaxExact =>
                  trace[1].locals.maxSum = HarmonicNumber(Terms)

C18_Witness ==
    /\ Rendered
    /\ active_ = "harmonic"
    /\ Terms = 10
    /\ Len(ListOf(trace, "drawLineStrip")) = 10
    /\ ListOf(trace, "drawLineStrip")[10].sum = Rat(7381, 2520)

RECURSIVE RPow(_, _)
RPow(a, e) == IF e = 0 THEN Rat(1, 1) ELSE RMul(a, RPow(a, e - 1))

(* ratio^0 + ... + ratio^(n-1) in closed form *)
GeometricSeries(a, n) ==
    IF a = Rat(1, 1) THEN Rat(n, 1)
    ELSE RDiv(RAdd(Rat(1, 1), RMul(Rat(-1, 1), RPow(a, n))),
              RAdd(Rat(1, 1), RMul(Rat(-1, 1), a)))

(* C19: in a frame of the geometric variant in which all terms are shown  *)
(* the partial sum plotted at the last point of the polyline is the sum   *)
(* of ratio^k for k = 0..terms-1 (terms up to MaxExact); with ratio 0.5   *)
(* and 10 terms it is 1023/512 = 1.998046875 and the limit line is drawn  *)
(* at 2.                                                                  *)
C19_GeometricPartialSum ==
    (Rendered /\ active_ = "geometric") =>
        LET sumLine == ListOf(trace, "drawLineStrip")
            a       == Rat(InRangeStore["ratio"], 100)
        IN  (Len(sumLine) = Terms /\ Terms <= MaxExact) =>
               /\ sumLine[Terms].sum = GeometricSeries(a, Terms)
               /\ (InRangeStore["ratio"] = 50 /\ Terms = 10) =>
                     /\ sumLine[Terms].sum = Rat(1023, 512)
                     /\ {it.at : it \in LimitLines(trace)} = {Rat(2, 1)}

C19_Witness ==
    /\ Rendered
    /\ active_ = "geometric"
    /\ ActiveStore = [ratio |-> 50, terms |-> 1000]
    /\ call.arg[1] = 400
    /\ Len(ListOf(trace, "drawLineStrip")) = 10
    /\ ListOf(trace, "drawLineStrip")[10].sum = Rat(1023, 512)

(* C20: no render call divides by zero: every divisor is non-zero; the    *)
(* term count used as a divisor is at least 1, a plot scale at least      *)
(* 0.001, the hue divisor max(terms - 1, 1) at least 1, the logistic      *)
(* cols - 1 at least 199, and rMax - rMin is positive whenever it is      *)
(* divided by.                                                            *)
C20_NoDivisionByZero ==
    Rendered =>
        \A d \in trace[1].locals.divs :
            /\ d.by.n # 0
            /\ d.of \in {"terms", "max(terms - 1, 1)", "depth + 1"} =>
                  ~RLess(d.by, Rat(1, 1))
            /\ d.of \in {"scale", "yScale"} => ~RLess(d.by, Rat(1, 1000))
            /\ d.of = "cols - 1" => ~RLess(d.by, Rat(199, 1))
            /\ d.of = "rMax - rMin" => RLess(Rat(0, 1), d.by)

C20_Witness ==
    /\ Rendered
    /\ active_ = "logistic"
    /\ ActiveStore["growth_rate"] = 50
    /\ call.arg[2] = 200
    /\ trace[1].locals.divs = {Div("cols - 1", Rat(199, 1))}

(* The reveal rate of each series variant, in tenths of a term per second *)
RevealRate(key) ==
    CASE key = "harmonic"     -> 100
      [] key = "geometric"    -> 80
      [] key = "basel"        -> 100
      [] key = "alt_harmonic" -> 80
      [] key = "e_series"     -> 40
      [] key = "apery"        -> 100

SeriesKeys == {"harmonic", "geometric", "basel", "alt_harmonic", "e_series",
               "apery"}

(* The calls of the frame in trace, in order *)
BatchOps(tr) == [k \in 1..(Len(tr) - 1) |-> tr[k + 1].ev]

(* C24, as claimed: every frame of every numeric-series variant emits a   *)
(* non-empty gridline batch (lines), then the bars (triangles), then the  *)
(* axes (lines), and last the partial-sum polyline (line strip), which is *)
(* emitted exactly when at least two points are visible.                  *)
C24_BatchOrder ==
    (Rendered /\ active_ \in SeriesKeys \cup {"cantor"}) =>
        LET ops == BatchOps(trace)
        IN  /\ Len(ops) >= 3
            /\ ops[1] = "drawLines" /\ trace[2].items # <<>>
            /\ ops[2] = "drawTriangles"
            /\ ops[3] = "drawLines"
            /\ Len(ops) = IF Cardinality(Quads(trace)) >= 2 THEN 4 ELSE 3
            /\ Len(ops) = 4 => ops[4] = "drawLineStrip"

(* The reveal properties the frames of a series variant share, n terms    *)
(* being emitted at reveal position rev (in 1/400 of a term)              *)
RevealShape(tr, rev, n) ==
    /\ Cardinality(Quads(tr)) = n
    /\ \A it \in Quads(tr) :
          /\ it.alpha = Nearest(rev - it.index * One, 0, One)
          /\ it.index < rev \div One => it.alpha = One
          /\ it.alpha \notin {0, One} => it.index = rev \div One
          /\ it.index <= rev \div One

(* C25, as claimed: a series variant at time t emits floor(t * R) terms,  *)
(* capped at the clamped term count T; term i carries the reveal fraction *)
(* clamp(t * R - i, 0, 1), which is 1 below the reveal boundary and       *)
(* fractional only at it, and no term beyond the boundary is emitted.     *)
C25_FlooredRevealCount ==
    (Rendered /\ active_ \in SeriesKeys) =>
        LET rev == call.arg[1] * RevealRate(active_)
        IN  RevealShape(trace, rev, min(Terms, rev \div One))

(* C25, amended: a series variant at time t emits floor(t * R) + 1 terms, *)
(* capped at the clamped term count T: the terms below the reveal         *)
(* boundary, with reveal fraction 1, and the term at the boundary, with   *)
(* fraction clamp(t * R - i, 0, 1); no term beyond the boundary is        *)
(* emitted.                                                               *)
C25_RevealCount ==
    (Rendered /\ active_ \in SeriesKeys) =>
        LET rev == call.arg[1] * RevealRate(active_)
        IN  RevealShape(trace, rev, min(Terms, (rev \div One) + 1))

C25_Witness ==
    /\ Rendered
    /\ active_ = "e_series"
    /\ call.arg[1] = 36
    /\ Cardinality(Quads(trace)) = 4
    /\ \E it \in Quads(trace) : it.index = 3 /\ it.alpha = 240

Columns(tr) == ItemsOf(tr, "drawPoints")

ChaosLines(tr) == {it \in ItemsOf(tr, "drawLines") : it.line = "chaos"}

(* C26: the logistic variant draws the chaos-onset marker, at growth rate *)
(* 3.57, exactly when the growth-rate range of the frame (1 to the        *)
(* clamped growth_rate) exceeds 3.57; the visible columns are the first   *)
(* ones from the left, at least 1, all of them from time 2 s on, never    *)
(* fewer in a later frame, and each holds 120 samples taken after 300     *)
(* discarded iterations.                                                  *)
C26_LogisticFrame ==
    (Rendered /\ active_ = "logistic") =>
        LET cols == Nearest((call.arg[2] * 7) \div 10, 200, 1400)
            n    == Cardinality(Columns(trace))
        IN  /\ ChaosLines(trace) # {} <=> InRangeStore["growth_rate"] > 357
            /\ \A it \in ChaosLines(trace) : it.r = 357
            /\ n >= 1 /\ n <= cols
            /\ {it.col : it \in Columns(trace)} = 0..(n - 1)
            /\ call.arg[1] >= 2 * TicksPerSecond => n = cols
            /\ \A it \in Columns(trace) :
                  it.samples = 120 /\ it.discarded = 300

C26_SweepMonotone ==
    [][(Rendered /\ call'.op = "render" /\ active_ = "logistic"
        /\ call.arg[1] <= call'.arg[1] /\ call.arg[2] = call'.arg[2]) =>
          Cardinality(Columns(trace)) <= Cardinality(Columns(trace'))]_vars

C26_Logistic == []C26_LogisticFrame /\ C26_SweepMonotone

C26_Witness ==
    /\ Rendered
    /\ active_ = "logistic"
    /\ ActiveStore["growth_rate"] = 358
    /\ call.arg[1] = 2 * TicksPerSecond
    /\ call.arg[2] = 640
    /\ Cardinality(Columns(trace)) = 448
    /\ ChaosLines(trace) # {}

(* The positions of the vertices of a geometric frame *)
InsideSurface(q) ==
    /\ ~RLess(q, Rat(-1, 1))
    /\ ~RLess(Rat(1, 1), q)

(* C27: every vertex the geometric variant emits (bars, partial-sum       *)
(* polyline, zero line and limit line) has both coordinates in [-1, 1],   *)
(* for all parameters and times.                                          *)
C27_VerticesInsideSurface ==
    (Rendered /\ active_ = "geometric" /\ Terms <= MaxExact) =>
        /\ \A it \in Quads(trace) :
              \A q \in {it.x1, it.x2, it.y1, it.y2} : InsideSurface(q)
        /\ \A it \in Polyline(trace) :
              InsideSurface(it.x) /\ InsideSurface(it.y)
        /\ \A it \in ItemsOf(trace, "drawLines") :
              \A q \in {it.x1, it.x2, it.y} : InsideSurface(q)

----------------------------------------------------------------------------
(* A ready Manager whose visualizers are rendered, activated and given     *)
(* parameters in any order, and whose active visualizer is asked for its   *)
(* parameters.  seen holds one earlier frame: what was rendered (key,      *)
(* store, time, dimensions) and the draw calls that were made.             *)

FramesKeys   == {"cantor", "logistic", "mandelbrot"}
FramesNames  == {"depth", "zoom"}
FramesValues == {300}
FramesTimes  == {10, 80}
FramesDims   == {<<640, 480>>, <<200, 100>>}
Defaults     == {0, 600}

InitFrames ==
    /\ visualizers_ = [k \in Keys |-> Instance(k)]
    /\ params_ = [i \in Instances |-> ConstructedParams(i)]
    /\ active_ = "cantor"
    /\ LET g  == MakeContextCurrent(CreateContext(NoGL, 1), 1)
           ri == init(NewRenderer, g, AllGood)
       IN  /\ renderer_ = ri.r
           /\ gl = ri.g
    /\ ctx_ = 1
    /\ ready_ = TRUE
    /\ alive = TRUE
    /\ initLog = <<TRUE>>
    /\ call = [op |-> "initGL", arg |-> <<"wiz-canvas">>, ret |-> TRUE]
    /\ trace = <<>>
    /\ seen = {}
    /\ app = NoApp
    /\ hook = NoHook

(* SeriesManager::render, the active visualizer's render in detail; the   *)
(* frame is kept in seen, or the frame seen before is                     *)
RenderRecorded(time, dims) ==
    /\ alive
    /\ ~notReady
    /\ active_ \in DOMAIN visualizers_
    /\ LET i == visualizers_[active_]
           f == Frame(i, params_[i], time, dims[1])
       IN  /\ trace' = <<[ev |-> "compute", key |-> active_,
                          locals |-> f.locals]>> \o f.batches
           /\ seen' \in {seen, {[key |-> active_, store |-> params_[i],
                                  time |-> time, dims |-> dims,
                                  batches |-> f.batches]}}
    /\ call' = [op |-> "render", arg |-> <<time, dims[1], dims[2]>>,
                ret |-> "void"]
    /\ UNCHANGED <<visualizers_, params_, active_, renderer_, ctx_, ready_,
                   alive, gl, initLog, app, hook>>

(* A getParam that reads through operator[], which inserts the name *)
GetParamInserting(name, defaultVal) ==
    /\ alive
    /\ active_ \in DOMAIN visualizers_
    /\ LET i == visualizers_[active_]
       IN  /\ call' = [op |-> "getParam", arg |-> <<name, defaultVal>>,
                       ret |-> getParam(params_[i], name, 0)]
           /\ params_' = [params_ EXCEPT ![i] =
                             setParam(@, name, getParam(@, name, 0))]
    /\ trace' = <<>>
    /\ UNCHANGED <<visualizers_, active_, renderer_, ctx_, ready_, alive, gl,
                   initLog, hostVars>>

(* ISeriesVisualizer::getParam, called on the active visualizer *)
GetParam(name, defaultVal) ==
    /\ alive
    /\ active_ \in DOMAIN visualizers_
    /\ LET i == visualizers_[active_]
       IN  call' = [op |-> "getParam", arg |-> <<name, defaultVal>>,
                    ret |-> getParam(params_[i], name, defaultVal)]
    /\ trace' = <<>>
    /\ UNCHANGED <<visualizers_, params_, active_, renderer_, ctx_, ready_,
                   alive, gl, initLog, hostVars>>

NextFrames ==
    \/ \E t \in FramesTimes, d \in FramesDims : RenderRecorded(t, d)
    \/ \E n \in FramesKeys : SetActiveVisualizer(n)
    \/ \E n \in FramesNames, v \in FramesValues : SetParam(n, v)
    \/ \E n \in FramesNames \cup {"growth_rate"}, d \in Defaults :
          GetParam(n, d)

SpecFrames == InitFrames /\ [][NextFrames]_vars

----------------------------------------------------------------------------
(* Properties of render and of the parameter store, under SpecFrames *)

(* The frame in trace and the frame f render the same visualizer at the   *)
(* same time on the same surface                                          *)
SameFrame(f) ==
    /\ f.key = active_
    /\ f.time = call.arg[1]
    /\ f.dims = <<call.arg[2], call.arg[3]>>

(* C21: render leaves every parameter store, the active key, the registry *)
(* and the ready flag unchanged, and two render calls of a visualizer     *)
(* with equal time, equal parameter store and equal dimensions emit the   *)
(* same sequence of draw batches, whichever calls were made in between.   *)
C21_RenderLeavesState ==
    [][call'.op = "render" =>
          UNCHANGED <<params_, active_, visualizers_, ready_>>]_vars

C21_SameInputsSameBatches ==
    Rendered =>
        \A f \in seen :
            (SameFrame(f) /\ f.store = ActiveStore) =>
                f.batches = Tail(trace)

Interpreted(key) ==
    CASE key = "cantor"    -> {"depth"}
      [] key = "geometric" -> {"ratio", "terms"}
      [] key = "logistic"  -> {"growth_rate"}
      [] OTHER             -> {"terms"}

AgreeOn(names, s1, s2) ==
    \A n \in names :
        /\ n \in DOMAIN s1 <=> n \in DOMAIN s2
        /\ n \in DOMAIN s1 => s1[n] = s2[n]

(* C22: the parameter store is an open map.  getParam(name, d) leaves the *)
(* store as it is and returns d for a name that was never written;        *)
(* setParam(name, value) inserts or overwrites that name only, for known  *)
(* and unknown names alike, and a getParam(name, d) that follows returns  *)
(* value whatever d is; and frames rendered from stores that differ only  *)
(* in names the variant does not interpret have the same batches.         *)
C22_GetParam ==
    [][call'.op = "getParam" =>
          /\ params_' = params_
          /\ call'.arg[1] \notin DOMAIN ActiveStore =>
                call'.ret = call'.arg[2]
          /\ (call.op = "setParam" /\ call.arg[1] = call'.arg[1]) =>
                call'.ret = call.arg[2]]_vars

C22_SetParam ==
    [][call'.op = "setParam" =>
          LET name  == call'.arg[1]
              i     == Instance(active_)
          IN  /\ DOMAIN params_'[i] = DOMAIN params_[i] \cup {name}
              /\ params_'[i][name] = call'.arg[2]
              /\ \A n \in DOMAIN params_[i] \ {name} :
                    params_'[i][n] = params_[i][n]]_vars

C22_UnknownNamesChangeNothing ==
    Rendered =>
        \A f \in seen :
            (SameFrame(f) /\ AgreeOn(Interpreted(active_), f.store,
                                     ActiveStore)) =>
                f.batches = Tail(trace)

C22_OpenStore ==
    C22_GetParam /\ C22_SetParam /\ []C22_UnknownNamesChangeNothing

C22_Witness ==
    /\ Rendered
    /\ active_ = "logistic"
    /\ ActiveStore = [growth_rate |-> 400, depth |-> 300, zoom |-> 300]
    /\ \E f \in seen :
          /\ SameFrame(f)
          /\ f.store = [growth_rate |-> 400]
          /\ Len(f.batches[3].items) = 448

----------------------------------------------------------------------------
(* computePrimes and detail::sieve_primes (main.cpp).  A std::uint32_t is  *)
(* a pair of 16-bit halves [hi, lo], so that sums and products wrap        *)
(* around at 2^32 as the unsigned arithmetic of the source does.           *)

MaxLimit == 60      \* the largest limit whose sieve array is built

Half == 65536

UInt32(n) == [hi |-> n \div Half, lo |-> n % Half]

UINT32_MAX == [hi |-> Half - 1, lo |-> Half - 1]

ToInt(u) == u.hi * Half + u.lo

Less32(a, b) == a.hi < b.hi \/ (a.hi = b.hi /\ a.lo < b.lo)

LessEq32(a, b) == ~Less32(b, a)

(* a + b in std::uint32_t *)
Add32(a, b) ==
    LET lo == a.lo + b.lo
    IN  [hi |-> (a.hi + b.hi + lo \div Half) % Half, lo |-> lo % Half]

(* the 32-bit product of two 16-bit halves, as [hi, lo] *)
Mul16(a, b) ==
    LET upper == (a \div 256) * b
        lower == (upper % 256) * 256 + (a % 256) * b
    IN  [hi |-> upper \div 256 + lower \div Half, lo |-> lower % Half]

(* a * b in std::uint32_t *)
Mul32(a, b) ==
    LET p == Mul16(a.lo, b.lo)
    IN  [hi |-> (p.hi + Mul16(a.hi, b.lo).lo + Mul16(a.lo, b.hi).lo) % Half,
         lo |-> p.lo]

(* The sieve while it runs: the array, whether a sum or product has       *)
(* wrapped around, and whether an index outside the array has been used   *)
InRange(st, index) == Less32(index, st.size)

RECURSIVE innerLoop(_, _, _, _)
(* for (j = i * i; j <= limit; j += i) is_prime[j] = false; from j on *)
innerLoop(st, j, i, limit) ==
    IF st.outside \/ ~LessEq32(j, limit) THEN st
    ELSE IF ~InRange(st, j) THEN [st EXCEPT !.outside = TRUE]
    ELSE LET next == Add32(j, i)
         IN  innerLoop([st EXCEPT !.is_prime[ToInt(j)] = FALSE,
                                  !.wrapped = @ \/ Less32(next, j)],
                       next, i, limit)

RECURSIVE outerLoop(_, _, _)
(* for (i = 2; i * i <= limit; ++i) if (is_prime[i]) ...; from i on *)
outerLoop(st, i, limit) ==
    LET sq == Mul32(i, i)
        s1 == [st EXCEPT !.wrapped = @ \/ i.hi > 0]
    IN  IF st.outside \/ ~LessEq32(sq, limit) THEN s1
        ELSE IF ~InRange(s1, i) THEN [s1 EXCEPT !.outside = TRUE]
        ELSE outerLoop(IF s1.is_prime[ToInt(i)]
                       THEN innerLoop(s1, sq, i, limit) ELSE s1,
                       Add32(i, UInt32(1)), limit)

(* detail::sieve_primes: the vector it returns, and how it got there.     *)
(* is_prime has limit + 1 elements, the sum taken in std::uint32_t.       *)
sieve_primes(limit) ==
    IF Less32(limit, UInt32(2))
    THEN [primes |-> <<>>, wrapped |-> FALSE, outside |-> FALSE]
    ELSE LET size == Add32(limit, UInt32(1))
             st0  == [size |-> size,
                      is_prime |-> [n \in 0..(ToInt(size) - 1) |-> TRUE],
                      wrapped |-> Less32(size, limit), outside |-> FALSE]
             st1  == IF InRange(st0, UInt32(1))
                     THEN [st0 EXCEPT !.is_prime[0] = FALSE,
                                      !.is_prime[1] = FALSE]
                     ELSE [st0 EXCEPT !.outside = TRUE]
             st2  == outerLoop(st1, UInt32(2), limit)
             iota == [k \in 1..ToInt(size) |-> k - 1]
         IN  [primes |-> IF st2.outside THEN <<>>
                         ELSE SelectSeq(iota, LAMBDA n : st2.is_prime[n]),
              wrapped |-> st2.wrapped, outside |-> st2.outside]

(* What a call that has indexed outside the array may do: not return (the *)
(* module traps), or return whatever the memory it read yields            *)
UndefinedOutcomes ==
    {[returned |-> FALSE, primes |-> <<>>],
     [returned |-> TRUE, primes |-> <<>>],
     [returned |-> TRUE, primes |-> <<0, 1>>]}

Outcomes(r) ==
    IF r.outside THEN UndefinedOutcomes
    ELSE {[returned |-> TRUE, primes |-> r.primes]}

(* the last min(n, 10) elements: std::span::last(10) *)
Last10(sq) ==
    IF Len(sq) > 10 THEN SubSeq(sq, Len(sq) - 9, Len(sq)) ELSE sq

(* computePrimes: the string it builds, by its parts *)
computePrimes(limit, primes) ==
    IF primes = <<>>
    THEN [text |-> "No primes found.", found |-> 0, upTo |-> limit,
          dots |-> FALSE, last |-> <<>>]
    ELSE [text |-> "Found ... primes up to ...", found |-> Len(primes),
          upTo |-> limit, dots |-> Len(primes) > 10, last |-> Last10(primes)]

Limits == {UInt32(n) : n \in 0..MaxLimit} \cup {UINT32_MAX}

InitPrimes ==
    /\ visualizers_ = [k \in Keys |-> Instance(k)]
    /\ params_ = [i \in Instances |-> ConstructedParams(i)]
    /\ active_ = "cantor"
    /\ renderer_ = NewRenderer
    /\ ctx_ = 0
    /\ ready_ = FALSE
    /\ alive = TRUE
    /\ gl = NoGL
    /\ initLog = <<>>
    /\ call = NoCall
    /\ trace = <<>>
    /\ seen = {}
    /\ app = NoApp
    /\ hook = NoHook

SievePrimes(limit) ==
    /\ LET r == sieve_primes(limit)
       IN  \E out \in Outcomes(r) :
              call' = [op |-> "sieve_primes", arg |-> <<limit>>,
                       ret |-> [returned |-> out.returned,
                                primes |-> out.primes,
                                wrapped |-> r.wrapped,
                                outside |-> r.outside]]
    /\ trace' = <<>>
    /\ UNCHANGED <<managerVars, renderer_, gl, hostVars>>

ComputePrimes(limit) ==
    /\ LET r == sieve_primes(limit)
       IN  \E out \in Outcomes(r) :
              call' = [op |-> "computePrimes", arg |-> <<limit>>,
                       ret |-> [returned |-> out.returned,
                                string |-> computePrimes(limit, out.primes),
                                wrapped |-> r.wrapped,
                                outside |-> r.outside]]
    /\ trace' = <<>>
    /\ UNCHANGED <<managerVars, renderer_, gl, hostVars>>

NextPrimes ==
    \/ \E limit \in Limits : SievePrimes(limit)
    \/ \E limit \in Limits : ComputePrimes(limit)

SpecPrimes == InitPrimes /\ [][NextPrimes]_vars

----------------------------------------------------------------------------
(* Properties of the sieve, under SpecPrimes *)

IsPrime(p) == p >= 2 /\ \A d \in 2..(p - 1) : p % d # 0

(* the primes up to n, in ascending order *)
PrimesUpTo(n) ==
    SelectSeq([k \in 1..n |-> k], LAMBDA p : IsPrime(p))

(* C30: for every 32-bit unsigned limit, sieve_primes(limit) returns      *)
(* exactly the primes p with 2 <= p <= limit in ascending order (none     *)
(* when limit < 2, and computePrimes then returns "No primes found."),    *)
(* and none of limit + 1, i * i and j += i wraps around modulo 2^32 or    *)
(* indexes outside the sieve array.                                       *)
C30_SieveIsExact ==
    /\ call.op \in {"sieve_primes", "computePrimes"} =>
          /\ call.ret.returned
          /\ ~call.ret.wrapped
          /\ ~call.ret.outside
    /\ call.op = "sieve_primes" =>
          call.ret.primes = PrimesUpTo(ToInt(call.arg[1]))
    /\ (call.op = "computePrimes" /\ Less32(call.arg[1], UInt32(2))) =>
          call.ret.string.text = "No primes found."

----------------------------------------------------------------------------
(* The host: the App component (App.tsx) with the useWasmEngine hook       *)
(* (engine.js) in a browser.  Time is in ticks of 1/TicksPerSecond s.      *)
(* React runs one callback at a time to completion.  A passive effect     *)
(* that a discrete event (the change of the select) has caused is flushed *)
(* before any other event or animation frame is handled; the effects of   *)
(* a commit are flushed before the next render.  An unmount detaches the  *)
(* refs to DOM elements when it commits, and runs the effects' cleanups   *)
(* afterwards.  setState on a component that has unmounted does nothing.  *)

MaxNow    == 60     \* the clock stops here
MaxFrames == 3      \* animation frames requested per mount

ClockSteps == {20}
Canvases   == {<<640, 480>>}

VIZ_KEYS == {"cantor", "harmonic", "geometric", "logistic"}

(* VISUALIZERS[key].params: the names in the order of the catalogue *)
ParamDefs(key) ==
    CASE key = "cantor"    -> <<"depth">>
      [] key = "harmonic"  -> <<"terms">>
      [] key = "geometric" -> <<"ratio", "terms">>
      [] key = "logistic"  -> <<"growth_rate">>

(* buildDefaults: every catalogued parameter at its default *)
buildDefaults ==
    [key \in VIZ_KEYS |->
        CASE key = "cantor"    -> [depth |-> 600]
          [] key = "harmonic"  -> [terms |-> 3000]
          [] key = "geometric" -> [ratio |-> 70, terms |-> 1500]
          [] key = "logistic"  -> [growth_rate |-> 400]]

(* the values the sliders are moved to *)
SliderValues(name) ==
    CASE name = "depth"       -> {300}
      [] name = "terms"       -> {500}
      [] name = "ratio"       -> {50}
      [] name = "growth_rate" -> {358}

Null   == 0
Module == 1     \* the instantiated engine module
Mgr    == 1     \* the SeriesManager the init effect has constructed

(* useWasmEngine as its first render leaves it: load() has been called *)
MountedHook ==
    [mounted   |-> TRUE,
     state     |-> [status |-> "loading", engine |-> Null, error |-> ""],
     engineRef |-> Null,
     cancelled |-> FALSE,
     load      |-> "import",      \* the await load() is suspended at
     engine    |-> Null]          \* engine, as the last render returned it

(* App after its first render and first effects: the init effect and the  *)
(* switch effect have both returned at their first line                   *)
MountedApp ==
    [mounted     |-> TRUE,
     canvasRef   |-> 1,
     managerRef  |-> Null,
     animRef     |-> 0,
     t0Ref       |-> 0,
     glReady     |-> FALSE,
     activeViz   |-> "cantor",
     paramValues |-> buildDefaults,
     canvas      |-> <<0, 0>>,    \* canvas.width, canvas.height
     pending     |-> {},          \* effects and cleanups not yet flushed
     frame       |-> 0,           \* id of the animation frame requested
     frames      |-> 0,           \* animation frames requested so far
     now         |-> 0,           \* performance.now()
     cleanup     |-> FALSE,       \* the init effect has returned its cleanup
     changedAt   |-> 0,           \* history: when activeViz last changed
     calls       |-> <<>>]        \* engine calls of the last step

InitHost ==
    /\ visualizers_ = [k \in {} |-> 0]
    /\ params_ = [i \in {} |-> EmptyStore]
    /\ active_ = ""
    /\ renderer_ = NewRenderer
    /\ ctx_ = 0
    /\ ready_ = FALSE
    /\ alive = FALSE
    /\ gl = NoGL
    /\ initLog = <<>>
    /\ call = NoCall
    /\ trace = <<>>
    /\ seen = {}
    /\ app = MountedApp
    /\ hook = MountedHook

(* An engine call as the host makes it: on is whether the instance it is  *)
(* made on still exists                                                   *)
EngineCall(op, arg) == [op |-> op, arg |-> arg, on |-> alive]

(* Only the effects of a commit are waiting, no unmount *)
Flushed == app.pending \cap {"init", "switch"} = {}

Elapse(d) ==
    /\ app.now + d <= MaxNow
    /\ app' = [app EXCEPT !.now = @ + d, !.calls = <<>>]
    /\ UNCHANGED <<managerVars, renderer_, gl, call, trace, seen, hook>>

(* setState in load(): React renders App again, the hook returns          *)
(* engineRef.current, and the init effect, whose dependencies have        *)
(* changed, is scheduled                                                  *)
setState(h, st) ==
    IF h.mounted THEN [h EXCEPT !.state = st, !.engine = h.engineRef]
    ELSE h

(* load() resumes after await import("../wasm/engine.js") *)
ImportSettles(ok) ==
    /\ hook.load = "import"
    /\ IF ok
       THEN hook' = [hook EXCEPT !.load = "createModule"]
       ELSE hook' = IF ~hook.cancelled
                    THEN setState([hook EXCEPT !.load = "done"],
                                  [status |-> "error", engine |-> Null,
                                   error |-> "import failed"])
                    ELSE [hook EXCEPT !.load = "done"]
    /\ app' = [app EXCEPT !.calls = <<>>]
    /\ UNCHANGED <<managerVars, renderer_, gl, call, trace, seen>>

(* A load() that keeps the module in the state only *)
ModuleSettlesStateOnly(ok) ==
    /\ hook.load = "createModule"
    /\ LET h == [hook EXCEPT !.load = "done"]
       IN  hook' =
             IF hook.cancelled THEN h
             ELSE IF ok
             THEN setState(h, [status |-> "ready", engine |-> Module,
                               error |-> ""])
             ELSE setState(h, [status |-> "error", engine |-> Null,
                               error |-> "WASM engine not built yet."])
    /\ app' = [app EXCEPT !.calls = <<>>,
                           !.pending = IF hook'.state # hook.state /\ ok
                                       THEN @ \cup {"init"} ELSE @]
    /\ UNCHANGED <<managerVars, renderer_, gl, call, trace, seen>>

(* load() resumes after await createModule(): the stub rejects, the built *)
(* loader resolves                                                        *)
ModuleSettles(ok) ==
    /\ hook.load = "createModule"
    /\ LET h == [hook EXCEPT !.load = "done"]
       IN  hook' =
             IF hook.cancelled THEN h
             ELSE IF ok
             THEN setState([h EXCEPT !.engineRef = Module],
                           [status |-> "ready", engine |-> Module,
                            error |-> ""])
             ELSE setState(h, [status |-> "error", engine |-> Null,
                               error |-> "WASM engine not built yet."])
    /\ app' = [app EXCEPT !.calls = <<>>,
                           !.pending = IF hook'.state # hook.state /\ ok
                                       THEN @ \cup {"init"} ELSE @]
    /\ UNCHANGED <<managerVars, renderer_, gl, call, trace, seen>>

(* The init effect: new engine.SeriesManager(), initGL, setGlReady, and   *)
(* with ok the time origin and the first requestAnimationFrame(loop)      *)
InitEffect(h, o) ==
    /\ "init" \in app.pending
    /\ IF hook.state.status # "ready" \/ hook.engine = Null
          \/ app.canvasRef = Null
       THEN /\ app' = [app EXCEPT !.pending = @ \ {"init"}, !.calls = <<>>]
            /\ UNCHANGED <<managerVars, renderer_, gl, call, trace>>
       ELSE /\ h \in CtxResults(gl)
            /\ (h <= 0) => (o = AllGood)
            /\ visualizers_' = [k \in Keys |-> Instance(k)]
            /\ params_' = [i \in Instances |-> ConstructedParams(i)]
            /\ active_' = "cantor"
            /\ alive' = TRUE
            /\ ctx_' = h
            /\ LET g1 == CreateContext(gl, h)
                   g2 == MakeContextCurrent(g1, h)
                   ri == init(NewRenderer, g2, o)
                   ok == h > 0 /\ ri.ret
               IN  /\ gl' = IF h <= 0 THEN g1 ELSE ri.g
                   /\ renderer_' = IF h <= 0 THEN NewRenderer ELSE ri.r
                   /\ ready_' = ok
                   /\ initLog' = <<ok>>
                   /\ call' = [op |-> "initGL", arg |-> <<"wiz-canvas">>,
                               ret |-> ok]
                   /\ \E size \in Canvases :
                        app' = [app EXCEPT
                          !.pending = @ \ {"init"},
                          !.canvas = size,
                          !.managerRef = Mgr,
                          !.glReady = ok,
                          !.t0Ref = IF ok THEN app.now ELSE @,
                          !.frame = IF ok THEN app.frames + 1 ELSE @,
                          !.animRef = IF ok THEN app.frames + 1 ELSE @,
                          !.frames = IF ok THEN @ + 1 ELSE @,
                          !.cleanup = TRUE,
                          !.calls = <<[op |-> "new", arg |-> <<>>,
                                       on |-> TRUE],
                                      [op |-> "initGL",
                                       arg |-> <<"wiz-canvas">>,
                                       on |-> TRUE]>>]
            /\ trace' = <<>>
    /\ UNCHANGED <<seen, hook>>

(* A loop that a timer drives which nothing clears, and that renders on   *)
(* the manager it was started with                                        *)
LoopInterval ==
    /\ app.frames > 0
    /\ app.frames < MaxFrames
    /\ Flushed
    /\ LET t == app.now - app.t0Ref
       IN  /\ call' = [op |-> "render",
                       arg |-> <<t, app.canvas[1], app.canvas[2]>>,
                       ret |-> "void"]
           /\ app' = [app EXCEPT
                        !.frames = @ + 1,
                        !.calls = <<EngineCall("render",
                                     <<t, app.canvas[1], app.canvas[2]>>)>>]
    /\ trace' = <<>>
    /\ UNCHANGED <<managerVars, renderer_, gl, seen, hook>>

(* loop, the requestAnimationFrame callback: render at the time since the *)
(* origin if the canvas and the manager are there, and request the next   *)
(* frame.  Of the frame, trace keeps which visualizer has drawn it; what  *)
(* it draws is SpecVisualizer's matter.                                   *)
LoopTick ==
    /\ app.frame # 0
    /\ app.frames < MaxFrames
    /\ Flushed
    /\ LET t == app.now - app.t0Ref
           c == app.canvas
       IN  IF app.canvasRef # Null /\ app.managerRef # Null
           THEN /\ call' = [op |-> "render", arg |-> <<t, c[1], c[2]>>,
                            ret |-> "void"]
                /\ trace' =
                     IF alive /\ ~notReady /\ active_ \in DOMAIN visualizers_
                     THEN <<[ev |-> "render", key |-> active_]>>
                     ELSE <<>>
                /\ app' = [app EXCEPT
                             !.frame = app.frames + 1,
                             !.animRef = app.frames + 1,
                             !.frames = @ + 1,
                             !.calls = <<EngineCall("render",
                                                    <<t, c[1], c[2]>>)>>]
           ELSE /\ app' = [app EXCEPT
                             !.frame = app.frames + 1,
                             !.animRef = app.frames + 1,
                             !.frames = @ + 1,
                             !.calls = <<>>]
                /\ UNCHANGED <<call, trace>>
    /\ UNCHANGED <<managerVars, renderer_, gl, seen, hook>>

(* The select's onChange: setActiveViz(name); React renders App again and *)
(* schedules the switch effect, whose dependency has changed              *)
SelectVisualizer(name) ==
    /\ app.mounted
    /\ hook.state.status = "ready"
    /\ "switch" \notin app.pending
    /\ name # app.activeViz
    /\ app' = [app EXCEPT !.activeViz = name,
                           !.pending = @ \cup {"switch"},
                           !.changedAt = app.now,
                           !.calls = <<>>]
    /\ UNCHANGED <<managerVars, renderer_, gl, call, trace, seen, hook>>

RECURSIVE pushParams(_, _, _)
(* for (const [k, v] of Object.entries(saved)) mgr.setParam(k, v), on the *)
(* store of the active visualizer, from the k-th entry on                 *)
pushParams(store, saved, names) ==
    IF names = <<>> THEN store
    ELSE pushParams(setParam(store, Head(names), saved[Head(names)]),
                    saved, Tail(names))

(* A switch effect that leaves the time origin where it was *)
SwitchEffectKeepsOrigin ==
    /\ "switch" \in app.pending
    /\ "init" \notin app.pending
    /\ app.mounted
    /\ IF app.managerRef = Null
       THEN /\ app' = [app EXCEPT !.pending = @ \ {"switch"},
                                  !.calls = <<>>]
            /\ UNCHANGED <<active_, params_, call>>
       ELSE LET name  == app.activeViz
                saved == app.paramValues[name]
                names == ParamDefs(name)
                act   == IF name \in DOMAIN visualizers_ THEN name
                         ELSE active_
            IN  /\ active_' = act
                /\ params_' = IF act \in DOMAIN visualizers_
                              THEN [params_ EXCEPT ![visualizers_[act]] =
                                       pushParams(@, saved, names)]
                              ELSE params_
                /\ call' = [op |-> "setParam",
                            arg |-> <<names[Len(names)],
                                      saved[names[Len(names)]]>>,
                            ret |-> "void"]
                /\ app' = [app EXCEPT
                             !.pending = @ \ {"switch"},
                             !.calls =
                                <<EngineCall("setActiveVisualizer",
                                             <<name>>)>>
                                \o [k \in 1..Len(names) |->
                                      EngineCall("setParam",
                                          <<names[k], saved[names[k]]>>)]]
    /\ trace' = <<>>
    /\ UNCHANGED <<visualizers_, renderer_, ctx_, ready_, alive, gl,
                   initLog, seen, hook>>

(* The switch effect: setActiveVisualizer(activeViz), the time origin     *)
(* moved to now, and the saved parameters of the visualizer pushed        *)
SwitchEffect ==
    /\ "switch" \in app.pending
    /\ "init" \notin app.pending
    /\ app.mounted
    /\ IF app.managerRef = Null
       THEN /\ app' = [app EXCEPT !.pending = @ \ {"switch"},
                                  !.calls = <<>>]
            /\ UNCHANGED <<active_, params_, call>>
       ELSE LET name  == app.activeViz
                saved == app.paramValues[name]
                names == ParamDefs(name)
                act   == IF name \in DOMAIN visualizers_ THEN name
                         ELSE active_
            IN  /\ active_' = act
                /\ params_' = IF act \in DOMAIN visualizers_
                              THEN [params_ EXCEPT ![visualizers_[act]] =
                                       pushParams(@, saved, names)]
                              ELSE params_
                /\ call' = [op |-> "setParam",
                            arg |-> <<names[Len(names)],
                                      saved[names[Len(names)]]>>,
                            ret |-> "void"]
                /\ app' = [app EXCEPT
                             !.pending = @ \ {"switch"},
                             !.t0Ref = app.now,
                             !.calls =
                                <<EngineCall("setActiveVisualizer",
                                             <<name>>)>>
                                \o [k \in 1..Len(names) |->
                                      EngineCall("setParam",
                                          <<names[k], saved[names[k]]>>)]]
    /\ trace' = <<>>
    /\ UNCHANGED <<visualizers_, renderer_, ctx_, ready_, alive, gl,
                   initLog, seen, hook>>

(* handleParam, the slider's onChange: the value is saved under the       *)
(* selected visualizer and sent to the manager if there is one            *)
HandleParam(name, value) ==
    /\ app.mounted
    /\ app.glReady
    /\ Flushed
    /\ \E k \in 1..Len(ParamDefs(app.activeViz)) :
          ParamDefs(app.activeViz)[k] = name
    /\ value \in SliderValues(name)
    /\ IF app.managerRef # Null
       THEN /\ params_' = IF active_ \in DOMAIN visualizers_
                          THEN [params_ EXCEPT ![visualizers_[active_]] =
                                   setParam(@, name, value)]
                          ELSE params_
            /\ call' = [op |-> "setParam", arg |-> <<name, value>>,
                        ret |-> "void"]
            /\ app' = [app EXCEPT
                         !.paramValues[app.activeViz] =
                            setParam(@, name, value),
                         !.calls = <<EngineCall("setParam",
                                                <<name, value>>)>>]
       ELSE /\ app' = [app EXCEPT
                         !.paramValues[app.activeViz] =
                            setParam(@, name, value),
                         !.calls = <<>>]
            /\ UNCHANGED <<params_, call>>
    /\ trace' = <<>>
    /\ UNCHANGED <<visualizers_, active_, renderer_, ctx_, ready_, alive, gl,
                   initLog, seen, hook>>

(* App unmounts: the commit removes the canvas and detaches canvasRef;    *)
(* the cleanups of its effects are scheduled                              *)
UnmountCommit ==
    /\ app.mounted
    /\ app.pending = {}
    /\ app' = [app EXCEPT !.mounted = FALSE, !.canvasRef = Null,
                           !.pending = {"cleanup"}, !.calls = <<>>]
    /\ hook' = [hook EXCEPT !.mounted = FALSE]
    /\ UNCHANGED <<managerVars, renderer_, gl, call, trace, seen>>

(* The cleanups: cancelled = true in the hook; in App                     *)
(* cancelAnimationFrame(animRef.current), and delete() and null for the   *)
(* manager if there is one                                                *)
UnmountCleanup ==
    /\ "cleanup" \in app.pending
    /\ hook' = [hook EXCEPT !.cancelled = TRUE]
    /\ IF app.cleanup /\ app.managerRef # Null
       THEN /\ alive' = FALSE
            /\ visualizers_' = [k \in {} |-> 0]
            /\ params_' = [i \in {} |-> EmptyStore]
            /\ active_' = ""
            /\ renderer_' = NewRenderer
            /\ ctx_' = 0
            /\ ready_' = FALSE
            /\ call' = [op |-> "delete", arg |-> <<>>, ret |-> "void"]
            /\ app' = [app EXCEPT
                         !.pending = {},
                         !.frame = IF @ = app.animRef THEN 0 ELSE @,
                         !.managerRef = Null,
                         !.calls = <<EngineCall("delete", <<>>)>>]
            /\ UNCHANGED <<gl, initLog>>
       ELSE /\ app' = [app EXCEPT
                         !.pending = {},
                         !.frame = IF app.cleanup /\ @ = app.animRef
                                   THEN 0 ELSE @,
                         !.calls = <<>>]
            /\ UNCHANGED <<managerVars, renderer_, gl, call>>
    /\ trace' = <<>>
    /\ UNCHANGED seen

NextHost ==
    \/ \E d \in ClockSteps : Elapse(d)
    \/ \E ok \in BOOLEAN : ImportSettles(ok)
    \/ \E ok \in BOOLEAN : ModuleSettles(ok)
    \/ \E h \in CtxResults(gl), o \in InitOutcomes : InitEffect(h, o)
    \/ LoopTick
    \/ \E name \in VIZ_KEYS : SelectVisualizer(name)
    \/ SwitchEffect
    \/ \E name \in {"depth", "terms", "ratio", "growth_rate"},
          value \in {300, 500, 50, 358} : HandleParam(name, value)
    \/ UnmountCommit
    \/ UnmountCleanup

SpecHost == InitHost /\ [][NextHost]_vars

----------------------------------------------------------------------------
(* Properties of the host, under SpecHost *)

(* The last step has rendered a frame *)
FrameRendered == app.calls # <<>> /\ app.calls[1].op = "render"

C23_FrameInSync ==
    FrameRendered =>
        /\ "switch" \notin app.pending
        /\ active_ = app.activeViz
        /\ call.arg[1] >= 0
        /\ call.arg[1] <= app.now - app.changedAt

C23_SwitchScheduled ==
    [][app'.activeViz # app.activeViz => "switch" \in app'.pending]_vars

C23_SwitchResets ==
    [][("switch" \in app.pending /\ "switch" \notin app'.pending
          /\ app.managerRef # Null) =>
            /\ app'.calls[1] = [op |-> "setActiveVisualizer",
                                 arg |-> <<app.activeViz>>, on |-> TRUE]
            /\ active_' = app.activeViz
            /\ app'.t0Ref = app.now]_vars

(* C23: every change of the selected visualizer is followed by            *)
(* setActiveVisualizer and a reset of the time origin before the next     *)
(* frame is rendered: a frame is rendered only with no switch pending,    *)
(* for the selected visualizer, at a time that is at most the time since  *)
(* the selection last changed.                                            *)
C23_TimeOriginResets ==
    []C23_FrameInSync /\ C23_SwitchScheduled /\ C23_SwitchResets

(* A logistic frame, selected 20 ticks after the start and rendered 20    *)
(* ticks later, at time 20                                                *)
C23_Witness ==
    /\ FrameRendered
    /\ active_ = "logistic"
    /\ app.changedAt = 20
    /\ app.now = 40
    /\ call.arg[1] = 20

(* C28: no render, setActiveVisualizer or setParam is made on a manager   *)
(* that has been deleted, managerRef never holds a deleted manager, and   *)
(* no animation frame is left requested once the manager is deleted.      *)
C28_NoCallOnDeleted ==
    /\ \A k \in 1..Len(app.calls) :
          app.calls[k].op \in {"render", "setActiveVisualizer", "setParam"}
              => app.calls[k].on
    /\ app.managerRef # Null => alive
    /\ (app.cleanup /\ ~alive) => app.frame = 0

(* After two frames App has unmounted, its cleanup has deleted the        *)
(* manager, and a later step has been taken                               *)
C28_Witness ==
    /\ ~app.mounted
    /\ app.cleanup
    /\ app.pending = {}
    /\ ~alive
    /\ app.frames >= 2
    /\ app.now >= 40
    /\ app.calls = <<>>

C29_StartsLoading == hook.load = "import" => hook.state.status = "loading"

C29_ReadyHasEngine ==
    hook.state.status = "ready" =>
        /\ hook.engine = Module
        /\ hook.state.engine = Module

C29_ChangesOnce ==
    [][hook'.state # hook.state =>
         /\ hook.state.status = "loading"
         /\ hook'.state.status \in {"ready", "error"}]_vars

C29_QuietAfterUnmount ==
    [][~hook.mounted => hook'.state = hook.state]_vars

(* C29: the hook's state starts at "loading" and changes at most once, to *)
(* "ready" or to "error"; whenever the status is "ready" the engine the   *)
(* hook returns is the loaded module; once the component has unmounted    *)
(* the state is not updated, however the load settles.                    *)
C29_HookState ==
    /\ [](C29_StartsLoading /\ C29_ReadyHasEngine)
    /\ C29_ChangesOnce
    /\ C29_QuietAfterUnmount

(* The load has resolved and the hook returns the module *)
C29_Witness ==
    /\ hook.load = "done"
    /\ hook.state.status = "ready"
    /\ hook.engine = Module

(* The component has unmounted while loading, and the load has settled *)
C29_UnmountedWhileLoading ==
    /\ ~hook.mounted
    /\ hook.load = "done"
    /\ hook.state.status = "loading"

====
